---- MODULE Spec2Model ----
(***************************************************************************)
(* Model of the Motorola 68000 core of m68000-emu (src/m68000-emu/src/     *)
(* core.rs): the register file, the twelve addressing modes with their     *)
(* read and write methods, the MOVE decoder and execute_instruction.       *)
(*                                                                         *)
(* TLC's integers are 32-bit signed, so a u32 is held as a pair            *)
(* <<high 16 bits, low 16 bits>>; u8 and u16 are plain integers.  All      *)
(* arithmetic is written out with its wrap-around.                         *)
(***************************************************************************)
EXTENDS Integers, Sequences, FiniteSets, TLC

VARIABLES
    registers,   \* Registers: data, address, usp, ssp, pc, ccr, mask, S, T
    bus,         \* the bus memory: a map from the byte addresses written to bytes
    decoded,     \* the Instruction the last decode_instruction returned, or NoInstruction
    panicked,    \* "" while the call returns normally, else the panic message
    last,        \* the last operation applied, with the state it started from
    steps,       \* number of instructions the host has executed
    file,        \* the cartridge file handed to the NES loader
    loaded,      \* what cartridge::from_file returned for it, or NotLoaded
    emulator,    \* the web front end's Emulator: None, SmsGg or Genesis
    current_rom, \* the web front end's Option<(Vec<u8>, String)>
    events,      \* FileOpen user events sent to the event loop, not yet handled
    dialogs,     \* open_file tasks spawned and still waiting for the user
    control_flow \* the event loop's ControlFlow: "Poll" or "Exit"

vars == <<registers, bus, decoded, panicked, last, steps, file, loaded,
          emulator, current_rom, events, dialogs, control_flow>>

Emulator_None == [kind |-> "None"]

\* run_event_loop before the first event: no emulator, no ROM, nothing in
\* flight
run_event_loop_start ==
    /\ emulator = Emulator_None
    /\ current_rom = [some |-> FALSE]
    /\ events = <<>>
    /\ dialogs = 0
    /\ control_flow = "Poll"

\* No cartridge file on the path, and no load attempted yet
NoFile == [exists |-> FALSE]
NotLoaded == [kind |-> "NotLoaded"]

\* ------------------------------------------------------------------ bounds

\* Instructions the host executes in one run of Spec.
MaxSteps == 2

\* ------------------------------------------------------- 32-bit arithmetic

W16 == 2 ^ 16

U32(hi, lo) == <<hi, lo>>

Hi(x) == x[1]
Lo(x) == x[2]

Zero32 == <<0, 0>>

\* u32::wrapping_add
WrappingAdd(a, b) ==
    LET s == Lo(a) + Lo(b)
    IN  <<(Hi(a) + Hi(b) + (s \div W16)) % W16, s % W16>>

\* u32::wrapping_sub
WrappingSub(a, b) ==
    LET d == Lo(a) - Lo(b)
        borrow == IF d < 0 THEN 1 ELSE 0
    IN  <<(Hi(a) - Hi(b) - borrow + 2 * W16) % W16, (d + W16) % W16>>

\* u32::from(u8) / u32::from(u16) / `n as u32` for a small non-negative n
FromU16(w) == <<0, w>>

\* `x as u16` and `x as u8` for a u32 x
AsU16(x) == Lo(x)
AsU8(x) == Lo(x) % 256

\* `w as i16` for a u16 w, `b as i8` for a u8 b: the signed reading of the bits
AsI16(w) == IF w >= 32768 THEN w - W16 ELSE w
AsI8(b) == IF b >= 128 THEN b - 256 ELSE b

\* Mutant: a negative displacement is zero extended from 16 bits
SignedAsU32_zero_extended(d) == IF d < 0 THEN <<0, W16 + d>> ELSE <<0, d>>

\* `d as u32` for a signed i8 / i16 d: sign extension to 32 bits
SignedAsU32(d) == IF d < 0 THEN <<W16 - 1, W16 + d>> ELSE <<0, d>>

\* GetBit::bit
Bit(x, n) == ((x \div (2 ^ n)) % 2) = 1

\* ------------------------------------------------------------- registers

ConditionCodesFrom(value) ==
    [carry    |-> Bit(value, 0),
     overflow |-> Bit(value, 1),
     zero     |-> Bit(value, 2),
     negative |-> Bit(value, 3),
     extend   |-> Bit(value, 4)]

B2N(b) == IF b THEN 1 ELSE 0

ConditionCodesInto(ccr) ==
    B2N(ccr.extend) * 16 + B2N(ccr.negative) * 8 + B2N(ccr.zero) * 4
        + B2N(ccr.overflow) * 2 + B2N(ccr.carry)

Registers_new ==
    [data |-> [i \in 0..7 |-> Zero32],
     address |-> [i \in 0..6 |-> Zero32],
     usp |-> Zero32,
     ssp |-> Zero32,
     pc |-> Zero32,
     ccr |-> ConditionCodesFrom(0),
     interrupt_priority_mask |-> 0,
     supervisor_mode |-> TRUE,
     trace_enabled |-> FALSE]

\* Mutant: the supervisor flag is put one bit lower, in bit 12
status_register_supervisor_bit12(r) ==
    (r.interrupt_priority_mask + B2N(r.supervisor_mode) * 16 + B2N(r.trace_enabled) * 128) * 256
        + ConditionCodesInto(r.ccr)

\* Registers::status_register: [msb, lsb] big-endian
status_register(r) ==
    (r.interrupt_priority_mask + B2N(r.supervisor_mode) * 32 + B2N(r.trace_enabled) * 128) * 256
        + ConditionCodesInto(r.ccr)

\* Mutant: the interrupt priority mask keeps two bits only
set_status_register_mask_two_bits(r, value) ==
    LET msb == value \div 256
        lsb == value % 256
    IN  [r EXCEPT !.interrupt_priority_mask = msb % 4,
                  !.supervisor_mode = Bit(msb, 5),
                  !.trace_enabled = Bit(msb, 7),
                  !.ccr = ConditionCodesFrom(lsb)]

\* Registers::set_status_register
set_status_register(r, value) ==
    LET msb == value \div 256
        lsb == value % 256
    IN  [r EXCEPT !.interrupt_priority_mask = msb % 8,
                  !.supervisor_mode = Bit(msb, 5),
                  !.trace_enabled = Bit(msb, 7),
                  !.ccr = ConditionCodesFrom(lsb)]

DataRegister_read_from(register, r) == r.data[register]

DataRegister_write_byte_to(register, r, value) ==
    [r EXCEPT !.data[register] = <<Hi(@), (Lo(@) \div 256) * 256 + value>>]

\* Mutant: a word write zero-extends into the upper half
DataRegister_write_word_to_clearing(register, r, value) ==
    [r EXCEPT !.data[register] = <<0, value>>]

DataRegister_write_word_to(register, r, value) ==
    [r EXCEPT !.data[register] = <<Hi(@), value>>]

DataRegister_write_long_word_to(register, r, value) ==
    [r EXCEPT !.data[register] = value]

is_stack_pointer(register) == register = 7

AddressRegister_read_from(register, r) ==
    IF register = 7
    THEN IF r.supervisor_mode THEN r.ssp ELSE r.usp
    ELSE r.address[register]

\* Mutant: A7 is written to the stack pointer that is not the active one
AddressRegister_write_long_word_to_other_sp(register, r, value) ==
    IF register = 7
    THEN IF r.supervisor_mode
         THEN [r EXCEPT !.usp = value]
         ELSE [r EXCEPT !.ssp = value]
    ELSE [r EXCEPT !.address[register] = value]

AddressRegister_write_long_word_to(register, r, value) ==
    IF register = 7
    THEN IF r.supervisor_mode
         THEN [r EXCEPT !.ssp = value]
         ELSE [r EXCEPT !.usp = value]
    ELSE [r EXCEPT !.address[register] = value]

\* Mutant: a word written to an address register is zero extended
AddressRegister_write_word_to_zero_extended(register, r, value) ==
    AddressRegister_write_long_word_to(register, r, <<0, value>>)

\* Address register writes are always sign extended to 32 bits
AddressRegister_write_word_to(register, r, value) ==
    AddressRegister_write_long_word_to(register, r, SignedAsU32(AsI16(value)))

\* ------------------------------------------------------------ sized values

OpSizes == {"Byte", "Word", "LongWord"}

\* SizedValue: the size tag and the value zero-extended to a u32
SizedValue(size, value) == [size |-> size, value |-> value]

SizedValue_is_zero(sv) == sv.value = Zero32

SizedValue_sign_bit(sv) ==
    CASE sv.size = "Byte" -> Bit(Lo(sv.value), 7)
      [] sv.size = "Word" -> Bit(Lo(sv.value), 15)
      [] sv.size = "LongWord" -> Bit(Hi(sv.value), 15)

\* `x as $t`, kept zero-extended
Truncate(size, x) ==
    CASE size = "Byte" -> <<0, AsU8(x)>>
      [] size = "Word" -> <<0, AsU16(x)>>
      [] size = "LongWord" -> x

\* Mutant: no stack alignment for a byte through A7
increment_step_for_no_sp(size, register) ==
    CASE size = "Byte" -> 1
      [] size = "Word" -> 2
      [] size = "LongWord" -> 4

\* IncrementStep::increment_step_for, for u8 / u16 / u32
increment_step_for(size, register) ==
    CASE size = "Byte" -> IF is_stack_pointer(register) THEN 2 ELSE 1
      [] size = "Word" -> 2
      [] size = "LongWord" -> 4

\* Mutant: a word index is used with its upper 16 bits as they are
IndexRegister_read_from_unextended(index, r, size) ==
    IF index.kind = "Data"
    THEN DataRegister_read_from(index.register, r)
    ELSE AddressRegister_read_from(index.register, r)

\* IndexRegister: [kind |-> "Data" | "Address", register |-> 0..7]
IndexRegister_read_from(index, r, size) ==
    LET raw_value == IF index.kind = "Data"
                     THEN DataRegister_read_from(index.register, r)
                     ELSE AddressRegister_read_from(index.register, r)
    IN  IF size = "SignExtendedWord"
        THEN SignedAsU32(AsI16(AsU16(raw_value)))
        ELSE raw_value

\* -------------------------------------------------------------------- bus

\* BusInterface::read_memory; an address never written reads as 0
bus_read_memory(b, address) == IF address \in DOMAIN b THEN b[address] ELSE 0

\* BusInterface::read_word: two consecutive bytes, big-endian
bus_read_word(b, address) ==
    bus_read_memory(b, address) * 256 + bus_read_memory(b, WrappingAdd(address, FromU16(1)))

\* BusInterface::read_long_word: four consecutive bytes, big-endian
bus_read_long_word(b, address) ==
    <<bus_read_word(b, address), bus_read_word(b, WrappingAdd(address, FromU16(2)))>>

bus_write_memory(b, address, value) == (address :> value) @@ b

bus_write_word(b, address, value) ==
    bus_write_memory(bus_write_memory(b, address, value \div 256),
                     WrappingAdd(address, FromU16(1)), value % 256)

bus_write_long_word(b, address, value) ==
    bus_write_word(bus_write_word(b, address, Hi(value)),
                   WrappingAdd(address, FromU16(2)), Lo(value))

\* bus.$bus_read_method(address), the value zero-extended to a u32
bus_read(b, address, size) ==
    CASE size = "Byte" -> <<0, bus_read_memory(b, address)>>
      [] size = "Word" -> <<0, bus_read_word(b, address)>>
      [] size = "LongWord" -> bus_read_long_word(b, address)

\* bus.$bus_write_method(address, value)
bus_write(b, address, size, value) ==
    CASE size = "Byte" -> bus_write_memory(b, address, AsU8(value))
      [] size = "Word" -> bus_write_word(b, address, AsU16(value))
      [] size = "LongWord" -> bus_write_long_word(b, address, value)

\* One bus access, as the bus sees it
Access(op, address, size) == [op |-> op, address |-> address, size |-> size]

\* ------------------------------------------------------- addressing modes

\* AddressingMode values
DataDirect(register) == [mode |-> "DataDirect", register |-> register]
AddressDirect(register) == [mode |-> "AddressDirect", register |-> register]
AddressIndirect(register) == [mode |-> "AddressIndirect", register |-> register]
AddressIndirectPostincrement(register) ==
    [mode |-> "AddressIndirectPostincrement", register |-> register]
AddressIndirectPredecrement(register) ==
    [mode |-> "AddressIndirectPredecrement", register |-> register]
AddressIndirectDisplacement(register, displacement) ==
    [mode |-> "AddressIndirectDisplacement", register |-> register,
     displacement |-> displacement]
AddressIndirectIndexed(register, index, index_size, displacement) ==
    [mode |-> "AddressIndirectIndexed", register |-> register, index |-> index,
     index_size |-> index_size, displacement |-> displacement]
PcRelativeDisplacement(pc, displacement) ==
    [mode |-> "PcRelativeDisplacement", pc |-> pc, displacement |-> displacement]
PcRelativeIndexed(pc, index, index_size, displacement) ==
    [mode |-> "PcRelativeIndexed", pc |-> pc, index |-> index,
     index_size |-> index_size, displacement |-> displacement]
AbsoluteShort(address) == [mode |-> "AbsoluteShort", address |-> address]
AbsoluteLong(address) == [mode |-> "AbsoluteLong", long_address |-> address]
Immediate(data) == [mode |-> "Immediate", data |-> data]

\* Mutant: the bus is accessed at the address already incremented
postincrement_access_after(register, r, size) ==
    LET address == WrappingAdd(AddressRegister_read_from(register, r),
                               FromU16(increment_step_for(size, register)))
    IN  [address |-> address,
         registers |-> AddressRegister_write_long_word_to(register, r, address)]

\* The AddressIndirectPostincrement arm of the read and write methods: the
\* address the bus is accessed at, and the registers with An stepped.
postincrement(register, r, size) ==
    LET increment_step == increment_step_for(size, register)
        address == AddressRegister_read_from(register, r)
    IN  [address |-> address,
         registers |-> AddressRegister_write_long_word_to(
                           register, r, WrappingAdd(address, FromU16(increment_step)))]

\* The AddressIndirectPredecrement arm of the read and write methods
predecrement(register, r, size) ==
    LET increment_step == increment_step_for(size, register)
        address == WrappingSub(AddressRegister_read_from(register, r),
                               FromU16(increment_step))
    IN  [address |-> address,
         registers |-> AddressRegister_write_long_word_to(register, r, address)]

\* The result of a read method: the registers after it, the value read
\* (zero-extended to a u32) and the bus accesses it made, in order.
ReadResult(r, value, accesses) ==
    [registers |-> r, value |-> value, accesses |-> accesses]

ReadAt(r, b, address, size) ==
    ReadResult(r, bus_read(b, address, size), <<Access("read", address, size)>>)

\* impl_addressing_read_method: read_byte_from / read_word_from / read_long_word_from
AddressingMode_read(am, r, b, size) ==
    CASE am.mode = "DataDirect" ->
            ReadResult(r, Truncate(size, DataRegister_read_from(am.register, r)), <<>>)
      [] am.mode = "AddressDirect" ->
            ReadResult(r, Truncate(size, AddressRegister_read_from(am.register, r)), <<>>)
      [] am.mode = "AddressIndirect" ->
            ReadAt(r, b, AddressRegister_read_from(am.register, r), size)
      [] am.mode = "AddressIndirectPostincrement" ->
            LET step == postincrement(am.register, r, size)
            IN  ReadAt(step.registers, b, step.address, size)
      [] am.mode = "AddressIndirectPredecrement" ->
            LET step == predecrement(am.register, r, size)
            IN  ReadAt(step.registers, b, step.address, size)
      [] am.mode = "AddressIndirectDisplacement" ->
            ReadAt(r, b, WrappingAdd(AddressRegister_read_from(am.register, r),
                                     SignedAsU32(am.displacement)), size)
      [] am.mode = "AddressIndirectIndexed" ->
            LET index == IndexRegister_read_from(am.index, r, am.index_size)
            IN  ReadAt(r, b, WrappingAdd(WrappingAdd(AddressRegister_read_from(am.register, r),
                                                     index),
                                         SignedAsU32(am.displacement)), size)
      [] am.mode = "PcRelativeDisplacement" ->
            ReadAt(r, b, WrappingAdd(am.pc, SignedAsU32(am.displacement)), size)
      [] am.mode = "PcRelativeIndexed" ->
            LET index == IndexRegister_read_from(am.index, r, am.index_size)
            IN  ReadAt(r, b, WrappingAdd(WrappingAdd(am.pc, index),
                                         SignedAsU32(am.displacement)), size)
      [] am.mode = "AbsoluteShort" -> ReadAt(r, b, SignedAsU32(am.address), size)
      [] am.mode = "AbsoluteLong" -> ReadAt(r, b, am.long_address, size)
      [] am.mode = "Immediate" -> ReadResult(r, Truncate(size, am.data), <<>>)

\* AddressingMode::read_from
AddressingMode_read_from(am, r, b, size) ==
    LET res == AddressingMode_read(am, r, b, size)
    IN  [registers |-> res.registers,
         value |-> SizedValue(size, res.value),
         accesses |-> res.accesses]

\* The result of a write method: registers and bus after it, the bus accesses
\* it made, and the panic message ("" when it returns).
WriteResult(r, b, accesses, panic) ==
    [registers |-> r, bus |-> b, accesses |-> accesses, panic |-> panic]

WriteAt(r, b, address, size, value) ==
    WriteResult(r, bus_write(b, address, size, value),
                <<Access("write", address, size)>>, "")

WritesNotSupported == "writes not supported with addressing mode"
ByteToAddressRegister == "Writing a byte to an address register is not supported"

\* DataRegister::$register_write_method
DataRegister_write(register, r, size, value) ==
    CASE size = "Byte" -> DataRegister_write_byte_to(register, r, AsU8(value))
      [] size = "Word" -> DataRegister_write_word_to(register, r, AsU16(value))
      [] size = "LongWord" -> DataRegister_write_long_word_to(register, r, value)

\* AddressRegister::$register_write_method; write_byte_to panics
AddressRegister_write(register, r, b, size, value) ==
    CASE size = "Byte" -> WriteResult(r, b, <<>>, ByteToAddressRegister)
      [] size = "Word" ->
            WriteResult(AddressRegister_write_word_to(register, r, AsU16(value)), b, <<>>, "")
      [] size = "LongWord" ->
            WriteResult(AddressRegister_write_long_word_to(register, r, value), b, <<>>, "")

\* impl_addressing_write_method: write_byte_to / write_word_to / write_long_word_to
AddressingMode_write(am, r, b, size, value) ==
    CASE am.mode = "DataDirect" ->
            WriteResult(DataRegister_write(am.register, r, size, value), b, <<>>, "")
      [] am.mode = "AddressDirect" -> AddressRegister_write(am.register, r, b, size, value)
      [] am.mode = "AddressIndirect" ->
            WriteAt(r, b, AddressRegister_read_from(am.register, r), size, value)
      [] am.mode = "AddressIndirectPostincrement" ->
            LET step == postincrement(am.register, r, size)
            IN  WriteAt(step.registers, b, step.address, size, value)
      [] am.mode = "AddressIndirectPredecrement" ->
            LET step == predecrement(am.register, r, size)
            IN  WriteAt(step.registers, b, step.address, size, value)
      [] am.mode = "AddressIndirectDisplacement" ->
            WriteAt(r, b, WrappingAdd(AddressRegister_read_from(am.register, r),
                                      SignedAsU32(am.displacement)), size, value)
      [] am.mode = "AddressIndirectIndexed" ->
            LET index == IndexRegister_read_from(am.index, r, am.index_size)
            IN  WriteAt(r, b, WrappingAdd(WrappingAdd(AddressRegister_read_from(am.register, r),
                                                      index),
                                          SignedAsU32(am.displacement)), size, value)
      [] am.mode = "AbsoluteShort" -> WriteAt(r, b, SignedAsU32(am.address), size, value)
      [] am.mode = "AbsoluteLong" -> WriteAt(r, b, am.long_address, size, value)
      [] am.mode \in {"PcRelativeDisplacement", "PcRelativeIndexed", "Immediate"} ->
            WriteResult(r, b, <<>>, WritesNotSupported)

\* AddressingMode::write_to
AddressingMode_write_to(am, r, b, sv) == AddressingMode_write(am, r, b, sv.size, sv.value)

is_address_direct(am) == am.mode = "AddressDirect"

is_writable(am) ==
    am.mode \notin {"PcRelativeDisplacement", "PcRelativeIndexed", "Immediate"}

\* ------------------------------------------------------------ instructions

None == [mode |-> "None"]

Illegal == [kind |-> "Illegal"]

Move(size, source, dest) ==
    [kind |-> "Move", size |-> size, source |-> source, dest |-> dest]

NoInstruction == [kind |-> "NoInstruction"]

\* InstructionExecutor::fetch_operand: the word at PC, and PC advanced by 2
fetch_operand(pc, b) ==
    [operand |-> bus_read_word(b, pc), pc |-> WrappingAdd(pc, FromU16(2))]

\* Mutant: the index size is read from bit 10
parse_index_size_bit_10(extension) ==
    LET index_register_number == (extension \div 4096) % 8
        index_register == IF Bit(extension, 15)
                          THEN [kind |-> "Address", register |-> index_register_number]
                          ELSE [kind |-> "Data", register |-> index_register_number]
        index_size == IF Bit(extension, 10) THEN "LongWord" ELSE "SignExtendedWord"
    IN  [index_register |-> index_register, index_size |-> index_size]

parse_index(extension) ==
    LET index_register_number == (extension \div 4096) % 8
        index_register == IF Bit(extension, 15)
                          THEN [kind |-> "Address", register |-> index_register_number]
                          ELSE [kind |-> "Data", register |-> index_register_number]
        index_size == IF Bit(extension, 11) THEN "LongWord" ELSE "SignExtendedWord"
    IN  [index_register |-> index_register, index_size |-> index_size]

\* The result of fetch_addressing_mode: Some(mode) or None, and PC after the
\* extension words it fetched.
Fetched(am, pc) == [am |-> am, pc |-> pc]

\* Mutant: the two words of a LongWord immediate are put together low word first
fetch_immediate_low_word_first(pc, b, size) ==
    LET e0 == fetch_operand(pc, b)
        e1 == fetch_operand(e0.pc, b)
    IN  CASE size = "Byte" -> Fetched(Immediate(<<0, e0.operand % 256>>), e0.pc)
          [] size = "Word" -> Fetched(Immediate(<<0, e0.operand>>), e0.pc)
          [] size = "LongWord" -> Fetched(Immediate(<<e1.operand, e0.operand>>), e1.pc)

\* Mutant: a LongWord immediate takes its low half from the first word again
\* and leaves PC after one extension word.
fetch_immediate_one_word(pc, b, size) ==
    LET e0 == fetch_operand(pc, b)
    IN  CASE size = "Byte" -> Fetched(Immediate(<<0, e0.operand % 256>>), e0.pc)
          [] size = "Word" -> Fetched(Immediate(<<0, e0.operand>>), e0.pc)
          [] size = "LongWord" -> Fetched(Immediate(<<e0.operand, e0.operand>>), e0.pc)

\* Mutant: a Byte immediate keeps the high byte of its extension word
fetch_immediate_untruncated(pc, b, size) ==
    LET e0 == fetch_operand(pc, b)
        e1 == fetch_operand(e0.pc, b)
    IN  CASE size \in {"Byte", "Word"} -> Fetched(Immediate(<<0, e0.operand>>), e0.pc)
          [] size = "LongWord" -> Fetched(Immediate(<<e0.operand, e1.operand>>), e1.pc)

\* The immediate operand (mode 0x07, register 0x04)
fetch_immediate(pc, b, size) ==
    LET e0 == fetch_operand(pc, b)
        e1 == fetch_operand(e0.pc, b)
    IN  CASE size = "Byte" -> Fetched(Immediate(<<0, e0.operand % 256>>), e0.pc)
          [] size = "Word" -> Fetched(Immediate(<<0, e0.operand>>), e0.pc)
          [] size = "LongWord" -> Fetched(Immediate(<<e0.operand, e1.operand>>), e1.pc)

\* Mutant: a reserved mode consumes an extension word before it is refused
reserved_mode_fetches(pc) == Fetched(None, WrappingAdd(pc, FromU16(2)))

\* Reserved/illegal addressing mode (mode 0x07, register 0x05 | 0x06 | 0x07)
reserved_mode(pc) == Fetched(None, pc)

\* InstructionExecutor::fetch_addressing_mode
fetch_addressing_mode(pc, b, mode, register, size) ==
    LET m == mode % 8
        reg == register % 8
        e0 == fetch_operand(pc, b)
        e1 == fetch_operand(e0.pc, b)
        extension == e0.operand
        idx == parse_index(extension)
    IN  CASE m = 0 -> Fetched(DataDirect(reg), pc)
          [] m = 1 -> Fetched(AddressDirect(reg), pc)
          [] m = 2 -> Fetched(AddressIndirect(reg), pc)
          [] m = 3 -> Fetched(AddressIndirectPostincrement(reg), pc)
          [] m = 4 -> Fetched(AddressIndirectPredecrement(reg), pc)
          [] m = 5 -> Fetched(AddressIndirectDisplacement(reg, AsI16(extension)), e0.pc)
          [] m = 6 ->
                Fetched(AddressIndirectIndexed(reg, idx.index_register, idx.index_size,
                                               AsI8(extension % 256)), e0.pc)
          [] m = 7 /\ reg = 0 -> Fetched(AbsoluteShort(AsI16(extension)), e0.pc)
          [] m = 7 /\ reg = 1 -> Fetched(AbsoluteLong(<<e0.operand, e1.operand>>), e1.pc)
          [] m = 7 /\ reg = 2 -> Fetched(PcRelativeDisplacement(pc, AsI16(extension)), e0.pc)
          [] m = 7 /\ reg = 3 ->
                Fetched(PcRelativeIndexed(pc, idx.index_register, idx.index_size,
                                          AsI8(extension % 256)), e0.pc)
          [] m = 7 /\ reg = 4 -> fetch_immediate(pc, b, size)
          [] m = 7 /\ reg \in {5, 6, 7} -> reserved_mode(pc)

\* The source operand field of the opcode: mode in bits 5..3, register in 2..0
fetch_addressing_mode_from_opcode(pc, b, opcode, size) ==
    fetch_addressing_mode(pc, b, (opcode \div 8) % 8, opcode % 8, size)

\* Mutant: the destination field read in the source's order, mode above register
dest_mode_unswapped(opcode) == (opcode \div 512) % 8

\* The destination operand field: mode in bits 8..6, register in bits 11..9
dest_mode(opcode) == (opcode \div 64) % 8
dest_register(opcode) == (opcode \div 512) % 8

\* opcode & 0xF000, as the top nibble
TopNibble(opcode) == opcode \div 4096

\* Mutant: size bits 10 and 11 exchanged
MoveSize_swapped(opcode) ==
    CASE TopNibble(opcode) = 1 -> "Byte"
      [] TopNibble(opcode) = 2 -> "Word"
      [] TopNibble(opcode) = 3 -> "LongWord"

\* The MOVE size of the inner match; only reached for top nibbles 1, 2, 3
MoveSize(opcode) ==
    CASE TopNibble(opcode) = 1 -> "Byte"
      [] TopNibble(opcode) = 3 -> "Word"
      [] TopNibble(opcode) = 2 -> "LongWord"

\* Mutant: the byte write to an address register is let through
RejectedDest_no_byte_check(dest, size) == ~is_writable(dest)

\* The destination check of decode_instruction
RejectedDest(dest, size) ==
    ~is_writable(dest) \/ (is_address_direct(dest) /\ size = "Byte")

\* The result of decode_instruction: the instruction, PC after it, and the
\* operands fetched on the way (NotFetched for one it never came to).
NotFetched == [mode |-> "NotFetched"]

Decoded(instruction, pc, opcode, source, source_pc, dest) ==
    [instruction |-> instruction, pc |-> pc, opcode |-> opcode,
     source |-> source, source_pc |-> source_pc, dest |-> dest]

\* Mutant: the destination's extension words are fetched before the source's
decode_instruction_dest_first(pc, b) ==
    LET op == fetch_operand(pc, b)
        opcode == op.operand
    IN  IF TopNibble(opcode) \in {1, 2, 3}
        THEN LET size == MoveSize(opcode)
                 dest == fetch_addressing_mode(op.pc, b, dest_mode(opcode),
                                               dest_register(opcode), size)
                 source == fetch_addressing_mode_from_opcode(dest.pc, b, opcode, size)
             IN  IF source.am = None
                 THEN Decoded(Illegal, source.pc, opcode, None, source.pc, NotFetched)
                 ELSE IF dest.am = None
                 THEN Decoded(Illegal, source.pc, opcode, source.am, source.pc, None)
                 ELSE IF RejectedDest(dest.am, size)
                 THEN Decoded(Illegal, source.pc, opcode, source.am, source.pc, dest.am)
                 ELSE Decoded(Move(size, source.am, dest.am), source.pc, opcode,
                              source.am, source.pc, dest.am)
        ELSE Decoded(Illegal, op.pc, opcode, NotFetched, op.pc, NotFetched)

\* InstructionExecutor::decode_instruction
decode_instruction(pc, b) ==
    LET op == fetch_operand(pc, b)
        opcode == op.operand
    IN  IF TopNibble(opcode) \in {1, 2, 3}
        THEN \* MOVE / MOVEA
             LET size == MoveSize(opcode)
                 source == fetch_addressing_mode_from_opcode(op.pc, b, opcode, size)
                 dest == fetch_addressing_mode(source.pc, b, dest_mode(opcode),
                                               dest_register(opcode), size)
             IN  IF source.am = None
                 THEN Decoded(Illegal, source.pc, opcode, None, source.pc, NotFetched)
                 ELSE IF dest.am = None
                 THEN Decoded(Illegal, dest.pc, opcode, source.am, source.pc, None)
                 ELSE IF RejectedDest(dest.am, size)
                 THEN Decoded(Illegal, dest.pc, opcode, source.am, source.pc, dest.am)
                 ELSE Decoded(Move(size, source.am, dest.am), dest.pc, opcode,
                              source.am, source.pc, dest.am)
        ELSE Decoded(Illegal, op.pc, opcode, NotFetched, op.pc, NotFetched)

\* ------------------------------------------------------ the decoder alone

\* bus.write_word for each word of a program, from `address` on
RECURSIVE bus_write_words(_, _, _)
bus_write_words(b, address, words) ==
    IF words = <<>>
    THEN b
    ELSE bus_write_words(bus_write_word(b, address, Head(words)),
                         WrappingAdd(address, FromU16(2)), Tail(words))

EmptyBus == <<>>

\* Where the decoded programs start: the address of the unit test, and one
\* whose extension words lie across the wrap of the 32-bit address space.
DecodePcs == {<<0, 4660>>, <<65535, 65532>>}

\* The words following the opcode, the same for every opcode
DecodeExtensions == <<65298, 13398, 35243, 52719>>

Opcodes == 0 .. 65535

InitDecode ==
    /\ \E pc \in DecodePcs, opcode \in Opcodes :
          /\ registers = [Registers_new EXCEPT !.pc = pc]
          /\ bus = bus_write_words(EmptyBus, pc, <<opcode>> \o DecodeExtensions)
    /\ decoded = NoInstruction
    /\ panicked = ""
    /\ last = [op |-> "none"]
    /\ steps = 0
    /\ file = NoFile
    /\ loaded = NotLoaded
    /\ run_event_loop_start

\* InstructionExecutor::decode_instruction called on its own, as tests::decode_mov does
DecodeInstruction ==
    /\ panicked = ""
    /\ decoded = NoInstruction
    /\ LET d == decode_instruction(registers.pc, bus)
       IN  /\ registers' = [registers EXCEPT !.pc = d.pc]
           /\ decoded' = d.instruction
           /\ last' = [op |-> "decode", registers |-> registers, opcode |-> d.opcode,
                       source |-> d.source, source_pc |-> d.source_pc, dest |-> d.dest]
    /\ UNCHANGED <<bus, panicked, steps, file, loaded,
                 emulator, current_rom, events, dialogs, control_flow>>

NextDecode == DecodeInstruction

SpecDecode == InitDecode /\ [][NextDecode]_vars

\* ------------------------------------------- the decoder on indexed operands

\* Extension words: every setting of bits 15..11, bits 10..8 clear or in
\* use, every displacement byte
IndexExtensions ==
    {top * 2048 + mid * 256 + d : top \in 0..31, mid \in {0, 5}, d \in 0..255}

\* MOVE.w (d8,A1,Xi),D0; MOVE.w (d8,PC,Xi),D0; MOVE.w (d16,PC),D0;
\* MOVE.w D0,(d8,A2,Xi); MOVE.l #imm,(d8,A2,Xi), each with the extension
\* word under test as the operand's own: behind the two immediate words
\* where the source has them
InitIndexed ==
    /\ \E pc \in DecodePcs, opcode \in {12337, 12347, 12346, 13696, 9660},
          extension \in IndexExtensions :
          /\ registers = [Registers_new EXCEPT !.pc = pc]
          /\ bus = bus_write_words(EmptyBus, pc,
                                   IF opcode = 9660
                                   THEN <<opcode, 65298, 13398, extension>>
                                   ELSE <<opcode, extension, 13398>>)
    /\ decoded = NoInstruction
    /\ panicked = ""
    /\ last = [op |-> "none"]
    /\ steps = 0
    /\ file = NoFile
    /\ loaded = NotLoaded
    /\ run_event_loop_start

SpecIndexed == InitIndexed /\ [][NextDecode]_vars

\* ---------------------------------------------------- operand access alone

\* Register files the operand accesses start from: distinct values with the
\* upper halves in use, values next to 0 (a pre-decrement wraps below 0) and
\* values next to 2^32 (a post-increment wraps above it).
DataPresets ==
    {[i \in 0..7 |-> <<42400 + i, 23280 + 16 * i>>],
     [i \in 0..7 |-> <<i, 65535 - i>>]}

AddressPresets ==
    {[address |-> [i \in 0..6 |-> <<0, 4096 * (i + 1)>>],
      usp |-> <<0, 40960>>, ssp |-> <<0, 49152>>],
     [address |-> [i \in 0..6 |-> <<0, i % 4>>],
      usp |-> <<0, 1>>, ssp |-> <<0, 0>>],
     [address |-> [i \in 0..6 |-> <<65535, 65532 + (i % 4)>>],
      usp |-> <<65535, 65535>>, ssp |-> <<65535, 65534>>]}

CcrPresets == {0, 31}

RegisterFile(data, a, supervisor, ccr) ==
    [Registers_new EXCEPT !.data = data, !.address = a.address, !.usp = a.usp,
                          !.ssp = a.ssp, !.supervisor_mode = supervisor,
                          !.ccr = ConditionCodesFrom(ccr)]

AllRegisters == 0 .. 7

IndexRegisters == [kind : {"Data", "Address"}, register : AllRegisters]

IndexSizes == {"SignExtendedWord", "LongWord"}

Displacements16 == {0, 13398, -1, -32768}

Displacements8 == {0, 127, -128}

BaseRegisters == {1, 7}

CapturedPcs == {<<0, 4662>>, <<65535, 65534>>}

\* The addressing modes the operand accesses are applied to
OperandModes ==
    {DataDirect(n) : n \in AllRegisters}
    \cup {AddressDirect(n) : n \in AllRegisters}
    \cup {AddressIndirect(n) : n \in AllRegisters}
    \cup {AddressIndirectPostincrement(n) : n \in AllRegisters}
    \cup {AddressIndirectPredecrement(n) : n \in AllRegisters}
    \cup {AddressIndirectDisplacement(n, d) : n \in AllRegisters, d \in Displacements16}
    \cup {AddressIndirectIndexed(n, x, xs, d) :
            n \in BaseRegisters, x \in IndexRegisters, xs \in IndexSizes,
            d \in Displacements8}
    \cup {PcRelativeDisplacement(pc, d) : pc \in CapturedPcs, d \in Displacements16}
    \cup {PcRelativeIndexed(pc, x, xs, d) :
            pc \in CapturedPcs, x \in IndexRegisters, xs \in IndexSizes,
            d \in Displacements8}
    \cup {AbsoluteShort(d) : d \in Displacements16}
    \cup {AbsoluteLong(a) : a \in {<<0, 17494>>, <<65535, 65535>>}}
    \cup {Immediate(v) : v \in {<<0, 18>>, <<33023, 65298>>}}

\* The values written, as u32 before truncation to the operand size
WriteValues == {<<0, 0>>, <<4660, 22136>>, <<1, 32768>>, <<65535, 65535>>}

InitOperand ==
    /\ \E data \in DataPresets, a \in AddressPresets, supervisor \in BOOLEAN,
          ccr \in CcrPresets :
          registers = RegisterFile(data, a, supervisor, ccr)
    /\ bus = EmptyBus
    /\ decoded = NoInstruction
    /\ panicked = ""
    /\ last = [op |-> "none"]
    /\ steps = 0
    /\ file = NoFile
    /\ loaded = NotLoaded
    /\ run_event_loop_start

\* AddressingMode::read_from applied to one operand
ReadOperand ==
    /\ panicked = ""
    /\ last.op = "none"
    /\ \E am \in OperandModes, size \in OpSizes :
          LET res == AddressingMode_read_from(am, registers, bus, size)
          IN  /\ registers' = res.registers
              /\ last' = [op |-> "read", registers |-> registers, am |-> am,
                          size |-> size, value |-> res.value,
                          accesses |-> res.accesses]
    /\ UNCHANGED <<bus, decoded, panicked, steps, file, loaded,
                 emulator, current_rom, events, dialogs, control_flow>>

\* AddressingMode::write_to applied to one operand
WriteOperand ==
    /\ panicked = ""
    /\ last.op = "none"
    /\ \E am \in OperandModes, size \in OpSizes, v \in WriteValues :
          LET value == SizedValue(size, Truncate(size, v))
              res == AddressingMode_write_to(am, registers, bus, value)
          IN  /\ registers' = res.registers
              /\ bus' = res.bus
              /\ panicked' = res.panic
              /\ last' = [op |-> "write", registers |-> registers, am |-> am,
                          size |-> size, value |-> value,
                          accesses |-> res.accesses]
    /\ UNCHANGED <<decoded, steps, file, loaded,
                 emulator, current_rom, events, dialogs, control_flow>>

NextOperand == ReadOperand \/ WriteOperand

SpecOperand == InitOperand /\ [][NextOperand]_vars

\* ------------------------------------------------------- the host's view

\* The flags a MOVE sets: N and Z from the value, V and C cleared, X kept
mov_flags(r, value) ==
    [r EXCEPT !.ccr = [@ EXCEPT !.carry = FALSE,
                                !.overflow = FALSE,
                                !.zero = SizedValue_is_zero(value),
                                !.negative = SizedValue_sign_bit(value)]]

ExecuteResult(wr, read_accesses) ==
    [registers |-> wr.registers, bus |-> wr.bus, panic |-> wr.panic,
     accesses |-> read_accesses \o wr.accesses]

mov_write(rd, b, dest) ==
    ExecuteResult(
        AddressingMode_write_to(dest, mov_flags(rd.registers, rd.value), b, rd.value),
        rd.accesses)

\* InstructionExecutor::mov (core/load.rs): read the source, set the flags,
\* write the destination.
mov(r, b, size, source, dest) ==
    mov_write(AddressingMode_read_from(source, r, b, size), b, dest)

IllegalPanic == "illegal or unimplemented instruction"

\* InstructionExecutor::execute_instruction
execute_instruction(r, b, instruction) ==
    IF instruction.kind = "Move"
    THEN mov(r, b, instruction.size, instruction.source, instruction.dest)
    ELSE [registers |-> r, bus |-> b, panic |-> IllegalPanic, accesses |-> <<>>]

execute_decoded(r, b, d) ==
    execute_instruction([r EXCEPT !.pc = d.pc], b, d.instruction)

\* InstructionExecutor::execute
execute(r, b) == execute_decoded(r, b, decode_instruction(r.pc, b))

\* The programs the host loads: MOVE.w A3,D7; MOVE.b #$12,($3456,A4) as
\* tests::decode_mov encodes it (0x197C); the words 0x18BC 0xFF12 0x3456; NOP;
\* MOVE.l (A0)+,(A1)+; MOVE.b -(A7),D0; MOVE.w D1,-(A2); MOVE.w with the
\* reserved source 7/5; MOVE.w D0 to an immediate destination;
\* MOVE.l #$80000001,D0; MOVE.w #0,D1; MOVE.b A0,A1; and two MOVEs in a row.
Programs ==
    {<<15883>>, <<6524, 65298, 13398>>, <<6332, 65298, 13398>>, <<20081>>, <<8920>>,
     <<4135>>, <<13569>>, <<12349>>, <<14784>>, <<8252, 32768, 1>>, <<12860, 0>>,
     <<4680>>, <<15883, 8920>>}

ProgramStart == <<0, 4660>>

\* The address registers the host sets: A3 = $BEEF and A4 = $1000 of the
\* MOVE scenarios, and values next to 2^32.
HostAddressPresets ==
    {[address |-> [i \in 0..6 |-> IF i = 3 THEN <<0, 48879>>
                                  ELSE IF i = 4 THEN <<0, 4096>>
                                  ELSE <<0, 8192 + 256 * i>>],
      usp |-> <<0, 12288>>, ssp |-> <<0, 12544>>],
     [address |-> [i \in 0..6 |-> <<65535, 65532 + (i % 4)>>],
      usp |-> <<65535, 65535>>, ssp |-> <<65535, 65534>>]}

\* User mode with X set; supervisor mode with every implemented bit set
HostStatusRegisters == {16, 42783}

Init ==
    /\ registers = Registers_new
    /\ bus = EmptyBus
    /\ decoded = NoInstruction
    /\ panicked = ""
    /\ last = [op |-> "none"]
    /\ steps = 0
    /\ file = NoFile
    /\ loaded = NotLoaded
    /\ run_event_loop_start

\* The host writes a program to the bus, once, before it runs the CPU
LoadProgram ==
    /\ panicked = ""
    /\ bus = EmptyBus
    /\ steps = 0
    /\ \E program \in Programs : bus' = bus_write_words(bus, ProgramStart, program)
    /\ last' = [op |-> "load"]
    /\ UNCHANGED <<registers, decoded, panicked, steps, file, loaded,
                 emulator, current_rom, events, dialogs, control_flow>>

\* M68000::set_pc
SetPc ==
    /\ panicked = ""
    /\ registers' = [registers EXCEPT !.pc = ProgramStart]
    /\ last' = [op |-> "set"]
    /\ UNCHANGED <<bus, decoded, panicked, steps, file, loaded,
                 emulator, current_rom, events, dialogs, control_flow>>

\* M68000::set_data_registers
SetDataRegisters ==
    /\ panicked = ""
    /\ \E data \in DataPresets : registers' = [registers EXCEPT !.data = data]
    /\ last' = [op |-> "set"]
    /\ UNCHANGED <<bus, decoded, panicked, steps, file, loaded,
                 emulator, current_rom, events, dialogs, control_flow>>

\* M68000::set_address_registers
SetAddressRegisters ==
    /\ panicked = ""
    /\ \E a \in HostAddressPresets :
          registers' = [registers EXCEPT !.address = a.address, !.usp = a.usp,
                                         !.ssp = a.ssp]
    /\ last' = [op |-> "set"]
    /\ UNCHANGED <<bus, decoded, panicked, steps, file, loaded,
                 emulator, current_rom, events, dialogs, control_flow>>

\* M68000::set_status_register
SetStatusRegister ==
    /\ panicked = ""
    /\ \E value \in HostStatusRegisters :
          registers' = set_status_register(registers, value)
    /\ last' = [op |-> "set"]
    /\ UNCHANGED <<bus, decoded, panicked, steps, file, loaded,
                 emulator, current_rom, events, dialogs, control_flow>>

\* The state after M68000::execute_instruction returned or panicked
Executed(res, instruction) ==
    /\ registers' = res.registers
    /\ bus' = res.bus
    /\ panicked' = res.panic
    /\ decoded' = instruction
    /\ last' = [op |-> "execute", registers |-> registers,
                instruction |-> instruction, accesses |-> res.accesses]

\* M68000::execute_instruction
ExecuteInstruction ==
    /\ panicked = ""
    /\ steps < MaxSteps
    /\ Executed(execute(registers, bus), decode_instruction(registers.pc, bus).instruction)
    /\ steps' = steps + 1
    /\ UNCHANGED <<file, loaded,
                 emulator, current_rom, events, dialogs, control_flow>>

Next ==
    \/ LoadProgram
    \/ SetPc
    \/ SetDataRegisters
    \/ SetAddressRegisters
    \/ SetStatusRegister
    \/ ExecuteInstruction

Spec == Init /\ [][Next]_vars

\* ------------------------------------------------ the status register alone

\* Every 16-bit value the host can hand to set_status_register
StatusValues == 0 .. 65535

\* User mode with every data and address register in use, besides the
\* register file of M68000::new
InitStatus ==
    /\ registers \in
          {Registers_new,
           RegisterFile([i \in 0..7 |-> <<42400 + i, 23280 + 16 * i>>],
                        [address |-> [i \in 0..6 |-> <<0, 4096 * (i + 1)>>],
                         usp |-> <<0, 40960>>, ssp |-> <<0, 49152>>],
                        FALSE, 21)}
    /\ bus = EmptyBus
    /\ decoded = NoInstruction
    /\ panicked = ""
    /\ last = [op |-> "none"]
    /\ steps = 0
    /\ file = NoFile
    /\ loaded = NotLoaded
    /\ run_event_loop_start

\* M68000::set_status_register, called with any 16-bit value on the starting
\* register file, or with the value status_register() has just returned
M68000_set_status_register ==
    /\ panicked = ""
    /\ last.op \in {"none", "status_register"}
    /\ \E value \in (IF last.op = "none" THEN StatusValues ELSE {last.value}) :
          /\ registers' = set_status_register(registers, value)
          /\ last' = [op |-> "set_status_register", value |-> value,
                      registers |-> registers]
    /\ UNCHANGED <<bus, decoded, panicked, steps, file, loaded,
                 emulator, current_rom, events, dialogs, control_flow>>

\* M68000::status_register, called on the new CPU or after the setter;
\* `written` is the value the setter was given (-1 when it was not called)
M68000_status_register ==
    /\ panicked = ""
    /\ last.op \in {"none", "set_status_register"}
    /\ last' = [op |-> "status_register", value |-> status_register(registers),
                written |-> IF last.op = "none" THEN -1 ELSE last.value,
                registers |-> registers]
    /\ UNCHANGED <<registers, bus, decoded, panicked, steps, file, loaded,
                 emulator, current_rom, events, dialogs, control_flow>>

NextStatus == M68000_set_status_register \/ M68000_status_register

SpecStatus == InitStatus /\ [][NextStatus]_vars

\* ------------------------------------------------ the NES cartridge loader

\* "NES<EOF>"
Magic == <<78, 69, 83, 26>>

\* A file that exists: its first bytes (at most the 16 of the header) and its
\* size in bytes.  What lies behind the header is not looked into here.
CartridgeFile(head, size) == [exists |-> TRUE, head |-> head, size |-> size]

\* header[i], the header bytes counted from 0 as the source does
At(header, i) == header[i + 1]

\* file.read_exact(&mut buf) for a buffer of n bytes with the file position
\* at `position`: Ok when the file holds n bytes from there on
read_exact(f, position, n) == n = 0 \/ position + n <= f.size

\* CartridgeFileError
Io == [kind |-> "Err", error |-> "Io"]
Format == [kind |-> "Err", error |-> "Format"]
UnsupportedMapper(mapper_number) ==
    [kind |-> "Err", error |-> "UnsupportedMapper", mapper_number |-> mapper_number]
MultiplePrgRamTypes == [kind |-> "Err", error |-> "MultiplePrgRamTypes"]

prg_rom_size(header) == 16 * 1024 * (((At(header, 9) % 16) * 256) + At(header, 4))

chr_rom_size(header) == 8 * 1024 * (((At(header, 9) \div 16) * 256) + At(header, 5))

has_trainer(header) == Bit(At(header, 6), 2)

\* Mutant: the two nibbles of the mapper number exchanged
mapper_number_swapped(header) == (At(header, 6) \div 16) * 16 + (At(header, 7) \div 16)

mapper_number(header) == (At(header, 7) \div 16) * 16 + (At(header, 6) \div 16)

\* Mutant: the trainer is not skipped
prg_rom_start_address_no_trainer(header) == 16

prg_rom_start_address(header) == IF has_trainer(header) THEN 16 + 512 ELSE 16

chr_type(header) == IF chr_rom_size(header) = 0 THEN "RAM" ELSE "ROM"

nametable_mirroring(header) ==
    IF Bit(At(header, 6), 0) THEN "Vertical" ELSE "Horizontal"

\* Mutant: NES 2.0 is looked for in the wrong one of the two format bits
format_other_bit(header) ==
    IF (At(header, 7) \div 4) % 4 = 1 THEN "Nes2Point0" ELSE "INes"

\* header[7] & 0x0C == 0x08
format(header) ==
    IF (At(header, 7) \div 4) % 4 = 2 THEN "Nes2Point0" ELSE "INes"

sub_mapper_number(header) ==
    IF format(header) = "Nes2Point0" THEN At(header, 8) \div 16 ELSE 0

volatile_shift(header) == At(header, 10) % 16

non_volatile_shift(header) == At(header, 10) \div 16

\* cmp::max
max(a, b) == IF a >= b THEN a ELSE b

\* Mutant: only the volatile shift sizes the PRG RAM
prg_ram_size_volatile_only(header) ==
    IF format(header) = "Nes2Point0"
    THEN IF volatile_shift(header) > 0 THEN 64 * (2 ^ volatile_shift(header)) ELSE 0
    ELSE 8192

\* prg_ram_size, past the MultiplePrgRamTypes return
prg_ram_size(header) ==
    IF format(header) = "Nes2Point0"
    THEN LET shift == max(volatile_shift(header), non_volatile_shift(header))
         IN  IF shift > 0 THEN 64 * (2 ^ shift) ELSE 0
    ELSE 8192

chr_ram_size(header) ==
    CASE chr_type(header) = "RAM" /\ format(header) = "Nes2Point0" ->
            LET chr_ram_shift == At(header, 11) % 16
            IN  IF chr_ram_shift > 0 THEN 64 * (2 ^ chr_ram_shift) ELSE 0
      [] chr_type(header) = "RAM" /\ format(header) = "INes" -> 8192
      [] chr_type(header) = "ROM" -> 0

chr_size(header) ==
    IF chr_type(header) = "ROM" THEN chr_rom_size(header) ELSE chr_ram_size(header)

\* A Vec<u8> read from the file: the `len` bytes from file offset `offset` on
FileRegion(offset, len) == [offset |-> offset, len |-> len]

\* vec![0; len]
Zeroed(len) == [fill |-> 0, len |-> len]

Cartridge(header) ==
    [prg_rom |-> FileRegion(prg_rom_start_address(header), prg_rom_size(header)),
     prg_ram |-> Zeroed(prg_ram_size(header)),
     chr_rom |-> FileRegion(prg_rom_start_address(header) + prg_rom_size(header),
                            chr_rom_size(header)),
     chr_ram |-> Zeroed(chr_ram_size(header))]

\* Ok(Mapper::variant(MapperImpl { cartridge, data })); `data` holds the
\* arguments the mapper's constructor is given
MapperImpl(variant, cartridge, data) ==
    [kind |-> "Ok", mapper |-> variant, cartridge |-> cartridge, data |-> data]

\* The match on mapper_number at the end of from_ines_file
dispatch(header) ==
    CASE mapper_number(header) = 0 ->
            MapperImpl("Nrom", Cartridge(header),
                       [chr_type |-> chr_type(header),
                        nametable_mirroring |-> nametable_mirroring(header)])
      [] mapper_number(header) = 1 ->
            MapperImpl("Mmc1", Cartridge(header), [chr_type |-> chr_type(header)])
      [] mapper_number(header) = 2 ->
            MapperImpl("Uxrom", Cartridge(header),
                       [chr_type |-> chr_type(header),
                        nametable_mirroring |-> nametable_mirroring(header)])
      [] mapper_number(header) = 3 ->
            MapperImpl("Cnrom", Cartridge(header),
                       [chr_type |-> chr_type(header),
                        nametable_mirroring |-> nametable_mirroring(header)])
      [] mapper_number(header) = 4 ->
            MapperImpl("Mmc3", Cartridge(header),
                       [chr_type |-> chr_type(header),
                        prg_rom_size |-> prg_rom_size(header),
                        chr_size |-> chr_size(header),
                        sub_mapper_number |-> sub_mapper_number(header)])
      [] mapper_number(header) = 7 ->
            MapperImpl("Axrom", Cartridge(header), [chr_type |-> chr_type(header)])
      [] OTHER -> UnsupportedMapper(mapper_number(header))

\* from_ines_file: each `?` on a read_exact returns the Io error
from_ines_file(f) ==
    IF ~read_exact(f, 0, 16)
    THEN Io
    ELSE IF ~read_exact(f, prg_rom_start_address(f.head), prg_rom_size(f.head))
    THEN Io
    ELSE IF ~read_exact(f, prg_rom_start_address(f.head) + prg_rom_size(f.head),
                        chr_rom_size(f.head))
    THEN Io
    ELSE IF /\ format(f.head) = "Nes2Point0"
            /\ volatile_shift(f.head) > 0
            /\ non_volatile_shift(f.head) > 0
    THEN MultiplePrgRamTypes
    ELSE dispatch(f.head)

\* cartridge::from_file
from_file(f) ==
    IF ~f.exists
    THEN Io
    ELSE IF ~read_exact(f, 0, 8)
    THEN Io
    ELSE IF SubSeq(f.head, 1, 4) # Magic
    THEN Format
    ELSE from_ines_file(f)

\* The 16 bytes of a header from its magic and its bytes 4 to 11
Header(magic, b4, b5, b6, b7, b8, b9, b10, b11) ==
    magic \o <<b4, b5, b6, b7, b8, b9, b10, b11, 0, 0, 0, 0>>

\* Byte 4 and byte 5: PRG-ROM and CHR-ROM units
PrgUnits == {0, 1, 2}
ChrUnits == {0, 1}

\* Byte 6: mirroring in bit 0, trainer in bit 2, low mapper nibble in 7..4
Flags6 == {0, 1, 20, 32, 48, 64, 80, 112, 245}

\* Byte 7: format in bits 3..2, high mapper nibble in bits 7..4
Flags7 == {0, 4, 8, 12, 24, 240}

\* Byte 9: the upper size nibbles, PRG in bits 3..0, CHR in bits 7..4
SizeMsbs == {0, 16}

\* Byte 10: volatile shift in bits 3..0, non-volatile shift in bits 7..4
PrgRamShifts == {0, 7, 112, 17, 249, 15, 240}

\* Byte 11: CHR-RAM shift in bits 3..0
ChrRamShifts == {0, 7, 240, 15}

\* Headers with the magic in place, and every mapper number 0..255 in both
\* formats
Headers ==
    {Header(Magic, b4, b5, b6, b7, 48, b9, b10, b11) :
        b4 \in PrgUnits, b5 \in ChrUnits, b6 \in Flags6, b7 \in Flags7,
        b9 \in SizeMsbs, b10 \in PrgRamShifts, b11 \in ChrRamShifts}
    \cup {Header(Magic, 1, 1, 16 * lo, 16 * hi + fmt, 0, 0, b10, 0) :
            lo \in 0..15, hi \in 0..15, fmt \in {0, 8}, b10 \in {0, 17}}

\* Headers whose first four bytes are not the magic
BadMagics == {<<78, 69, 83, 0>>, <<77, 69, 83, 26>>, <<0, 0, 0, 0>>, <<26, 83, 69, 78>>}

BadHeaders ==
    {Header(magic, 1, 1, b6, b7, 0, 0, b10, 0) :
        magic \in BadMagics, b6 \in {0, 80}, b7 \in {0, 8}, b10 \in {0, 17}}

\* The file offset behind the CHR-ROM the header declares
DeclaredEnd(header) ==
    prg_rom_start_address(header) + prg_rom_size(header) + chr_rom_size(header)

\* File sizes: cut inside the first 8 bytes, inside the header, the header
\* alone, cut inside the PRG-ROM, cut one byte short, as declared, and with
\* bytes to spare
FileSizes(header) ==
    {4, 6, 12, 16,
     prg_rom_start_address(header) + prg_rom_size(header) - 1,
     DeclaredEnd(header) - 1, DeclaredEnd(header), DeclaredEnd(header) + 5}

Min(a, b) == IF a <= b THEN a ELSE b

\* The file of `size` bytes that starts with the bytes of `header`
FileOf(header, size) == CartridgeFile(SubSeq(header, 1, Min(16, size)), size)

InitLoader ==
    /\ \/ file = NoFile
       \/ \E header \in Headers :
             \E size \in FileSizes(header) : file = FileOf(header, size)
       \/ \E header \in BadHeaders :
             \E size \in FileSizes(header) : file = FileOf(header, size)
    /\ loaded = NotLoaded
    /\ registers = Registers_new
    /\ bus = EmptyBus
    /\ decoded = NoInstruction
    /\ panicked = ""
    /\ last = [op |-> "none"]
    /\ steps = 0
    /\ run_event_loop_start

\* The host loads the cartridge file, once
FromFile ==
    /\ loaded = NotLoaded
    /\ loaded' = from_file(file)
    /\ last' = [op |-> "from_file"]
    /\ UNCHANGED <<registers, bus, decoded, panicked, steps, file,
                 emulator, current_rom, events, dialogs, control_flow>>

NextLoader == FromFile

SpecLoader == InitLoader /\ [][NextLoader]_vars

\* ------------------------------------------------ the web front end's loop

\* Most open_file tasks and FileOpen events in flight at once, and most
\* commands one MainEventsCleared finds in the channel
MaxDialogs == 2
MaxCommands == 2

\* What the file dialog can hand back: contents and file name.  A file
\* name is the tuple of its dot-separated parts: <<"sonic", "md">> is
\* sonic.md, <<"rom">> has no dot, <<"", "bin">> is the dot file .bin
Files ==
    [contents : {<<1>>, <<2, 3>>},
     file_name : {<<"sonic", "md">>, <<"alex", "sms">>, <<"rom">>, <<"SONIC", "MD">>}]

\* Path::extension: the part after the last dot, if the name has a dot that
\* is not its first character
Path_extension(file_name) ==
    IF Len(file_name) = 1 \/ (Len(file_name) = 2 /\ file_name[1] = "")
    THEN [some |-> FALSE]
    ELSE [some |-> TRUE, value |-> file_name[Len(file_name)]]

\* open_emulator: the emulator for the extension, Genesis when the name has
\* none; any other extension panics
open_emulator(rom, file_name) ==
    LET extension == Path_extension(file_name)
        file_ext == IF extension.some THEN extension.value ELSE "md"
    IN  CASE file_ext \in {"sms", "gg"} ->
               [panic |-> "",
                emulator |-> [kind |-> "SmsGg", rom |-> rom, vdp_version |-> file_ext]]
          [] file_ext \in {"md", "bin"} ->
               [panic |-> "", emulator |-> [kind |-> "Genesis", rom |-> rom]]
          [] OTHER ->
               [panic |-> "Unsupported extension", emulator |-> Emulator_None]

InitWeb ==
    /\ run_event_loop_start
    /\ registers = Registers_new
    /\ bus = EmptyBus
    /\ decoded = NoInstruction
    /\ panicked = ""
    /\ last = [op |-> "none"]
    /\ steps = 0
    /\ file = NoFile
    /\ loaded = NotLoaded

\* Event::UserEvent(FileOpen { contents, file_name }): current_rom is
\* replaced first, then the emulator is built; a panic of open_emulator
\* leaves the emulator unassigned
FileOpen ==
    /\ panicked = ""
    /\ control_flow = "Poll"
    /\ events # <<>>
    /\ LET contents == Head(events).contents
           file_name == Head(events).file_name
           opened == open_emulator(contents, file_name)
       IN  /\ current_rom' = [some |-> TRUE, rom |-> contents, file_name |-> file_name]
           /\ emulator' = IF opened.panic = "" THEN opened.emulator ELSE emulator
           /\ panicked' = opened.panic
    /\ events' = Tail(events)
    /\ last' = [op |-> "FileOpen", emulator |-> emulator, current_rom |-> current_rom]
    /\ UNCHANGED <<registers, bus, decoded, steps, file, loaded, dialogs, control_flow>>

\* The loop `while let Some(command) = emulator_channel.pop_command()` over
\* the commands the channel holds, on the state s = [emulator, dialogs, panic]
RECURSIVE pop_commands(_, _, _)
pop_commands(s, rom, commands) ==
    IF commands = <<>> \/ s.panic # ""
    THEN s
    ELSE LET command == Head(commands)
         IN  CASE command = "OpenFile" ->
                    pop_commands([s EXCEPT !.dialogs = @ + 1], rom, Tail(commands))
               [] command = "Reset" ->
                    IF ~rom.some
                    THEN pop_commands(s, rom, Tail(commands))
                    ELSE LET opened == open_emulator(rom.rom, rom.file_name)
                         IN  IF opened.panic = ""
                             THEN pop_commands([s EXCEPT !.emulator = opened.emulator],
                                               rom, Tail(commands))
                             ELSE [s EXCEPT !.panic = opened.panic]

\* Event::MainEventsCleared: nothing before the next frame is due; else the
\* frame is rendered and the channel is drained.  Rendering, audio start and
\* reload_config work inside the emulator and assign neither `emulator`
\* nor `current_rom`.
MainEventsCleared ==
    /\ panicked = ""
    /\ control_flow = "Poll"
    /\ \E frame_due \in BOOLEAN,
          commands \in UNION {[1..k -> {"OpenFile", "Reset"}] : k \in 0..MaxCommands} :
          /\ dialogs + Len(events)
                + Cardinality({i \in DOMAIN commands : commands[i] = "OpenFile"})
                <= MaxDialogs
          /\ ~frame_due => commands = <<>>
          /\ LET s == pop_commands([emulator |-> emulator, dialogs |-> dialogs, panic |-> ""],
                                   current_rom, commands)
             IN  /\ emulator' = s.emulator
                 /\ dialogs' = s.dialogs
                 /\ panicked' = s.panic
          /\ last' = [op |-> "MainEventsCleared", emulator |-> emulator,
                      current_rom |-> current_rom, frame_due |-> frame_due,
                      commands |-> commands]
    /\ UNCHANGED <<registers, bus, decoded, steps, file, loaded, current_rom, events,
                   control_flow>>

\* open_file: the dialog is cancelled, or the file picked is sent to the
\* event loop as a FileOpen event
open_file ==
    /\ panicked = ""
    /\ control_flow = "Poll"
    /\ dialogs > 0
    /\ dialogs' = dialogs - 1
    /\ \/ /\ events' = events
          /\ last' = [op |-> "open_file", emulator |-> emulator,
                      current_rom |-> current_rom, picked |-> FALSE]
       \/ \E picked \in Files :
             /\ events' = Append(events, picked)
             /\ last' = [op |-> "open_file", emulator |-> emulator,
                         current_rom |-> current_rom, picked |-> TRUE]
    /\ UNCHANGED <<registers, bus, decoded, panicked, steps, file, loaded, emulator,
                   current_rom, control_flow>>

\* Event::WindowEvent: the emulator sees the event (its inputs change), and
\* CloseRequested ends the loop
WindowEvent ==
    /\ panicked = ""
    /\ control_flow = "Poll"
    /\ \E close_requested \in BOOLEAN :
          /\ control_flow' = IF close_requested THEN "Exit" ELSE control_flow
          /\ last' = [op |-> "WindowEvent", emulator |-> emulator,
                      current_rom |-> current_rom, close_requested |-> close_requested]
    /\ UNCHANGED <<registers, bus, decoded, panicked, steps, file, loaded, emulator,
                   current_rom, events, dialogs>>

NextWeb ==
    \/ FileOpen
    \/ MainEventsCleared
    \/ open_file
    \/ WindowEvent

SpecWeb == InitWeb /\ [][NextWeb]_vars

\* ------------------------------------------------------------- properties

\* The operand fields of a MOVE opcode as the reference manual lays them out
SourceModeBits(opcode) == (opcode \div 8) % 8
SourceRegisterBits(opcode) == opcode % 8
DestModeBits(opcode) == (opcode \div 64) % 8
DestRegisterBits(opcode) == (opcode \div 512) % 8

IsMoveOpcode(opcode) == opcode \div 4096 \in {1, 2, 3}

IsReservedField(mode, register) == mode = 7 /\ register \in {5, 6, 7}

RegisterModes ==
    {"DataDirect", "AddressDirect", "AddressIndirect", "AddressIndirectPostincrement",
     "AddressIndirectPredecrement", "AddressIndirectDisplacement",
     "AddressIndirectIndexed"}

\* The mode bits and register bits that select an addressing mode
ModeBitsOf(am) ==
    CASE am.mode = "DataDirect" -> 0
      [] am.mode = "AddressDirect" -> 1
      [] am.mode = "AddressIndirect" -> 2
      [] am.mode = "AddressIndirectPostincrement" -> 3
      [] am.mode = "AddressIndirectPredecrement" -> 4
      [] am.mode = "AddressIndirectDisplacement" -> 5
      [] am.mode = "AddressIndirectIndexed" -> 6
      [] OTHER -> 7

RegisterBitsOf(am) ==
    CASE am.mode \in RegisterModes -> am.register
      [] am.mode = "AbsoluteShort" -> 0
      [] am.mode = "AbsoluteLong" -> 1
      [] am.mode = "PcRelativeDisplacement" -> 2
      [] am.mode = "PcRelativeIndexed" -> 3
      [] am.mode = "Immediate" -> 4

\* The number of extension words of an operand
ExtensionWords(am, size) ==
    CASE am.mode \in {"DataDirect", "AddressDirect", "AddressIndirect",
                      "AddressIndirectPostincrement", "AddressIndirectPredecrement"} -> 0
      [] am.mode \in {"AddressIndirectDisplacement", "AddressIndirectIndexed",
                      "AbsoluteShort", "PcRelativeDisplacement",
                      "PcRelativeIndexed"} -> 1
      [] am.mode = "AbsoluteLong" -> 2
      [] am.mode = "Immediate" -> IF size = "LongWord" THEN 2 ELSE 1

\* An as the instruction sees it: A7 is SSP in supervisor mode, USP otherwise
An(r, n) ==
    IF n = 7 THEN (IF r.supervisor_mode THEN r.ssp ELSE r.usp) ELSE r.address[n]

\* The documented post-increment / pre-decrement step
StepOf(size, n) ==
    IF size = "Byte" THEN (IF n = 7 THEN 2 ELSE 1)
    ELSE IF size = "Word" THEN 2 ELSE 4

\* C1 (as claimed): an instruction that decodes as Illegal does not abort
\* execute_instruction; the core enters the illegal-instruction exception:
\* the call returns with supervisor mode set and PC loaded from vector 4
\* (the long word at address 16).
C1_IllegalEntersException ==
    (last.op = "execute" /\ last.instruction = Illegal)
        => /\ panicked = ""
           /\ registers.supervisor_mode
           /\ registers.pc = bus_read_long_word(bus, <<0, 16>>)

\* C2: the MOVE size comes from the top nibble: 1 is Byte, 3 is Word, 2 is
\* LongWord; an opcode with any other top nibble decodes as Illegal.
C2_MoveSizeFromTopNibble ==
    last.op = "decode" =>
        LET nibble == last.opcode \div 4096
        IN  /\ decoded.kind \in {"Move", "Illegal"}
            /\ decoded.kind = "Move" =>
                  \/ nibble = 1 /\ decoded.size = "Byte"
                  \/ nibble = 3 /\ decoded.size = "Word"
                  \/ nibble = 2 /\ decoded.size = "LongWord"
            /\ nibble \notin {1, 2, 3} => decoded = Illegal

C2_Witness ==
    /\ last.op = "decode"
    /\ last.opcode \div 4096 = 2
    /\ decoded.kind = "Move"
    /\ decoded.size = "LongWord"

\* C3: a decoded MOVE has its source mode from opcode bits 5..3 and source
\* register from bits 2..0, its destination register from bits 11..9 and
\* destination mode from bits 8..6.
C3_OperandFields ==
    (last.op = "decode" /\ decoded.kind = "Move") =>
        /\ ModeBitsOf(decoded.source) = SourceModeBits(last.opcode)
        /\ RegisterBitsOf(decoded.source) = SourceRegisterBits(last.opcode)
        /\ ModeBitsOf(decoded.dest) = DestModeBits(last.opcode)
        /\ RegisterBitsOf(decoded.dest) = DestRegisterBits(last.opcode)

\* MOVE.w A3, D7 of tests::decode_mov
C3_Witness ==
    /\ last.op = "decode"
    /\ last.opcode = 15883
    /\ decoded = Move("Word", AddressDirect(3), DataDirect(7))

\* C4: a MOVE whose destination is PC-relative, immediate, or an address
\* register with Byte size decodes as Illegal; so the destination of every
\* decoded Move can be written without the write method panicking.
C4_DestinationWritable ==
    last.op = "decode" =>
        /\ (/\ IsMoveOpcode(last.opcode)
            /\ \/ (DestModeBits(last.opcode) = 7
                      /\ DestRegisterBits(last.opcode) \in {2, 3, 4})
               \/ (DestModeBits(last.opcode) = 1 /\ last.opcode \div 4096 = 1))
              => decoded = Illegal
        /\ decoded.kind = "Move" =>
              \A v \in WriteValues :
                  AddressingMode_write_to(
                      decoded.dest, registers, bus,
                      SizedValue(decoded.size, Truncate(decoded.size, v))).panic = ""

\* A byte MOVE from a valid source to an address register, refused
C4_Witness ==
    /\ last.op = "decode"
    /\ decoded = Illegal
    /\ last.source.mode = "Immediate"
    /\ last.dest.mode = "AddressDirect"

\* C5: mode 7 with register 5, 6 or 7 is reserved: no mode is returned and no
\* extension word is fetched for it, and the MOVE decodes as Illegal.
C5_ReservedModes ==
    (last.op = "decode" /\ IsMoveOpcode(last.opcode)) =>
        /\ IsReservedField(SourceModeBits(last.opcode), SourceRegisterBits(last.opcode))
              => /\ last.source = None
                 /\ decoded = Illegal
                 /\ registers.pc = WrappingAdd(last.registers.pc, <<0, 2>>)
        /\ (/\ ~IsReservedField(SourceModeBits(last.opcode),
                                SourceRegisterBits(last.opcode))
            /\ IsReservedField(DestModeBits(last.opcode), DestRegisterBits(last.opcode)))
              => /\ last.dest = None
                 /\ decoded = Illegal
                 /\ registers.pc = last.source_pc

\* A reserved destination after a source that took extension words
C5_Witness ==
    /\ last.op = "decode"
    /\ last.source.mode = "AbsoluteLong"
    /\ last.dest = None
    /\ decoded = Illegal
    /\ registers.pc = WrappingAdd(last.registers.pc, <<0, 6>>)

\* C6: decoding a MOVE with valid operands advances PC, modulo 2^32, by
\* 2 * (1 + ext(source) + ext(destination)); a register-to-register MOVE at
\* 0x1234 leaves PC = 0x1236.
C6_PcAdvance ==
    (last.op = "decode" /\ decoded.kind = "Move") =>
        /\ registers.pc =
              WrappingAdd(last.registers.pc,
                          <<0, 2 * (1 + ExtensionWords(decoded.source, decoded.size)
                                      + ExtensionWords(decoded.dest, decoded.size))>>)
        /\ (/\ last.registers.pc = <<0, 4660>>
            /\ decoded.source.mode \in {"DataDirect", "AddressDirect"}
            /\ decoded.dest.mode \in {"DataDirect", "AddressDirect"})
              => registers.pc = <<0, 4662>>

\* A MOVE.l with a long immediate and an absolute-long destination, decoded
\* across the wrap of the address space
C6_Witness ==
    /\ last.op = "decode"
    /\ last.registers.pc = <<65535, 65532>>
    /\ decoded.kind = "Move"
    /\ decoded.source.mode = "Immediate"
    /\ decoded.size = "LongWord"
    /\ decoded.dest.mode = "AbsoluteLong"
    /\ registers.pc = <<0, 6>>

\* The scenario of C7: `opcode` 0xFF12 0x3456 at PC = 0x1234, A4 = 0x1000
C7_Scenario(opcode) ==
    /\ last.op = "execute"
    /\ last.registers.pc = <<0, 4660>>
    /\ last.registers.address[4] = <<0, 4096>>
    /\ bus_read_word(bus, <<0, 4660>>) = opcode
    /\ bus_read_word(bus, <<0, 4662>>) = 65298
    /\ bus_read_word(bus, <<0, 4664>>) = 13398

\* What C7 says of the instruction: a Byte MOVE from Immediate(0x12) to
\* (0x3456, A4), whose one bus access is the byte write at 0x4456, and PC
\* left at 0x123A
C7_Outcome ==
    /\ last.instruction =
          Move("Byte", Immediate(<<0, 18>>), AddressIndirectDisplacement(4, 13398))
    /\ last.accesses = <<Access("write", <<0, 17494>>, "Byte")>>
    /\ registers.pc = <<0, 4666>>

\* C7 (as claimed): with the words 0x18BC 0xFF12 0x3456 at PC = 0x1234 and
\* A4 = 0x1000 the instruction is MOVE.b #$12, ($3456, A4), targets bus
\* address 0x4456 and leaves PC = 0x123A.
C7_AsClaimed == C7_Scenario(6332) => C7_Outcome

\* C7 (amended): the opcode word of MOVE.b #$12, ($3456, A4) is 0x197C, the
\* word tests::decode_mov uses; with 0x197C 0xFF12 0x3456 at PC = 0x1234 and
\* A4 = 0x1000 the instruction decodes as that MOVE, targets bus address
\* 0x4456 and leaves PC = 0x123A.
C7_MoveImmediateToDisplacement == C7_Scenario(6524) => C7_Outcome

C7_Witness ==
    /\ C7_Scenario(6524)
    /\ panicked = ""
    /\ bus_read_memory(bus, <<0, 17494>>) = 18

\* C8: a post-increment operand accesses the bus at the value An held before
\* and leaves An = old + step; a pre-decrement operand accesses the bus at
\* old - step and leaves An = old - step; for reads and writes, every size,
\* modulo 2^32.
C8_IncrementOrder ==
    (last.op \in {"read", "write"}
        /\ last.am.mode \in {"AddressIndirectPostincrement", "AddressIndirectPredecrement"})
    => LET n == last.am.register
           old == An(last.registers, n)
           step == <<0, StepOf(last.size, n)>>
       IN  IF last.am.mode = "AddressIndirectPostincrement"
           THEN /\ last.accesses = <<Access(last.op, old, last.size)>>
                /\ An(registers, n) = WrappingAdd(old, step)
           ELSE /\ last.accesses = <<Access(last.op, WrappingSub(old, step), last.size)>>
                /\ An(registers, n) = WrappingSub(old, step)

\* A long-word post-increment read at 0xFFFFFFFE, which wraps An to 2
C8_Witness ==
    /\ last.op = "read"
    /\ last.am = AddressIndirectPostincrement(2)
    /\ last.size = "LongWord"
    /\ last.registers.address[2] = <<65535, 65534>>
    /\ last.accesses = <<Access("read", <<65535, 65534>>, "LongWord")>>
    /\ registers.address[2] = <<0, 2>>

\* C9: the step is 1 for Byte, 2 for Word, 4 for LongWord, but 2 for a Byte
\* through A7 (the active one of USP and SSP); the same for post-increment and
\* pre-decrement, for reads and writes.
C9_IncrementStep ==
    (last.op \in {"read", "write"}
        /\ last.am.mode \in {"AddressIndirectPostincrement", "AddressIndirectPredecrement"})
    => LET n == last.am.register
           size == last.size
           step == IF n = 7 /\ size = "Byte" THEN 2
                   ELSE CASE size = "Byte" -> 1 [] size = "Word" -> 2 [] size = "LongWord" -> 4
           before == IF n < 7 THEN last.registers.address[n]
                     ELSE IF last.registers.supervisor_mode THEN last.registers.ssp
                     ELSE last.registers.usp
           after == IF n < 7 THEN registers.address[n]
                    ELSE IF last.registers.supervisor_mode THEN registers.ssp
                    ELSE registers.usp
       IN  IF last.am.mode = "AddressIndirectPostincrement"
           THEN WrappingSub(after, before) = <<0, step>>
           ELSE WrappingSub(before, after) = <<0, step>>

\* A byte written through -(A7) in user mode: USP goes down by 2
C9_Witness ==
    /\ last.op = "write"
    /\ last.am = AddressIndirectPredecrement(7)
    /\ last.size = "Byte"
    /\ ~last.registers.supervisor_mode
    /\ last.registers.usp = <<0, 1>>
    /\ registers.usp = <<65535, 65535>>

\* C10: a Byte write to Dn changes only bits 7..0 and a Word write only bits
\* 15..0; a LongWord write replaces all 32 bits; the other data registers,
\* the address registers, USP, SSP, PC and the status flags are unchanged.
C10_DataRegisterWrite ==
    (last.op = "write" /\ last.am.mode = "DataDirect") =>
        LET n == last.am.register
            old == last.registers.data[n]
            new == registers.data[n]
            v == last.value.value
        IN  /\ last.size = "Byte" =>
                  /\ Hi(new) = Hi(old)
                  /\ Lo(new) \div 256 = Lo(old) \div 256
                  /\ Lo(new) % 256 = Lo(v)
            /\ last.size = "Word" => Hi(new) = Hi(old) /\ Lo(new) = Lo(v)
            /\ last.size = "LongWord" => new = v
            /\ \A i \in 0..7 : i # n => registers.data[i] = last.registers.data[i]
            /\ registers.address = last.registers.address
            /\ registers.usp = last.registers.usp
            /\ registers.ssp = last.registers.ssp
            /\ registers.pc = last.registers.pc
            /\ status_register(registers) = status_register(last.registers)
            /\ registers.ccr = last.registers.ccr

\* A byte written to D3, whose upper 24 bits are in use and stay
C10_Witness ==
    /\ last.op = "write"
    /\ last.am = DataDirect(3)
    /\ last.size = "Byte"
    /\ last.registers.data[3] = <<42403, 23328>>
    /\ last.value.value = <<0, 255>>
    /\ registers.data[3] = <<42403, 23551>>

\* v sign-extended from 16 to 32 bits: 0xFFFF0000 | v when bit 15 of v is set
SignExtendWord(v) == <<IF (v \div 32768) % 2 = 1 THEN 65535 ELSE 0, v>>

\* C11: after a Word write of v to An (A7 included), a read of An returns v
\* sign-extended from 16 to 32 bits: 0xFFFF0000 | v when bit 15 of v is set,
\* v otherwise.
C11_WordWriteSignExtended ==
    (last.op = "write" /\ last.am.mode = "AddressDirect" /\ last.size = "Word") =>
        /\ panicked = ""
        /\ AddressRegister_read_from(last.am.register, registers)
              = SignExtendWord(Lo(last.value.value))
        /\ An(registers, last.am.register) = SignExtendWord(Lo(last.value.value))

\* 0x8000 written as a word to A7 in user mode: USP reads 0xFFFF8000
C11_Witness ==
    /\ last.op = "write"
    /\ last.am = AddressDirect(7)
    /\ last.size = "Word"
    /\ last.value.value = <<0, 32768>>
    /\ ~registers.supervisor_mode
    /\ last.registers.usp = <<0, 40960>>
    /\ registers.usp = <<65535, 32768>>

\* C12: A7 is SSP when the supervisor flag is set and USP when it is clear,
\* for reads and for writes; a write to A7 changes only the selected stack
\* pointer and leaves the other one and A0..A6 unchanged; a write to one of
\* A0..A6 leaves USP and SSP (and the other address registers) unchanged.
C12_StackPointerRouting ==
    /\ (last.op = "read" /\ last.am = AddressDirect(7)) =>
          last.value.value =
              Truncate(last.size, IF last.registers.supervisor_mode
                                  THEN last.registers.ssp ELSE last.registers.usp)
    /\ (last.op = "write" /\ last.am.mode = "AddressDirect" /\ panicked = "") =>
          LET n == last.am.register
              v == IF last.size = "Word" THEN SignExtendWord(Lo(last.value.value))
                   ELSE last.value.value
              old == last.registers
          IN  /\ registers.supervisor_mode = old.supervisor_mode
              /\ (n = 7 /\ old.supervisor_mode) =>
                    /\ registers.ssp = v
                    /\ registers.usp = old.usp
                    /\ registers.address = old.address
              /\ (n = 7 /\ ~old.supervisor_mode) =>
                    /\ registers.usp = v
                    /\ registers.ssp = old.ssp
                    /\ registers.address = old.address
              /\ n < 7 =>
                    /\ registers.address[n] = v
                    /\ registers.usp = old.usp
                    /\ registers.ssp = old.ssp
                    /\ \A i \in 0..6 : i # n => registers.address[i] = old.address[i]

\* A long word written to A7 in supervisor mode: SSP takes it, USP stays
C12_Witness ==
    /\ last.op = "write"
    /\ last.am = AddressDirect(7)
    /\ last.size = "LongWord"
    /\ registers.supervisor_mode
    /\ last.registers.ssp = <<0, 49152>>
    /\ last.registers.usp = <<0, 40960>>
    /\ registers.ssp = <<4660, 22136>>
    /\ registers.usp = <<0, 40960>>

\* The status register layout with the supervisor flag in bit `sbit`: trace
\* in bit 15, the interrupt priority mask in bits 10..8, X,N,Z,V,C in bits
\* 4..0, zero in every other bit, for the getter and the setter alike.
C13_Layout(sbit) ==
    /\ last.op = "status_register" =>
          last.value =
              B2N(registers.trace_enabled) * 32768
                  + B2N(registers.supervisor_mode) * (2 ^ sbit)
                  + registers.interrupt_priority_mask * 256
                  + B2N(registers.ccr.extend) * 16 + B2N(registers.ccr.negative) * 8
                  + B2N(registers.ccr.zero) * 4 + B2N(registers.ccr.overflow) * 2
                  + B2N(registers.ccr.carry)
    /\ last.op = "set_status_register" =>
          /\ registers.trace_enabled = ((last.value \div 32768) % 2 = 1)
          /\ registers.supervisor_mode = ((last.value \div (2 ^ sbit)) % 2 = 1)
          /\ registers.interrupt_priority_mask = (last.value \div 256) % 8
          /\ registers.ccr.extend = ((last.value \div 16) % 2 = 1)
          /\ registers.ccr.negative = ((last.value \div 8) % 2 = 1)
          /\ registers.ccr.zero = ((last.value \div 4) % 2 = 1)
          /\ registers.ccr.overflow = ((last.value \div 2) % 2 = 1)
          /\ registers.ccr.carry = (last.value % 2 = 1)

\* C13 (as claimed): status_register() returns trace in bit 15, supervisor
\* in bit 12, the interrupt priority mask in bits 10..8, X,N,Z,V,C in bits
\* 4..0 and zero in every other bit, and set_status_register reads the flags
\* from those same bit positions.
C13_AsClaimed == C13_Layout(12)

\* C13 (amended): the supervisor flag is bit 13, as on the 68000: the layout
\* is [T,.,S,.,.,I2,I1,I0] [.,.,.,X,N,Z,V,C]; status_register() returns trace
\* in bit 15, supervisor in bit 13, the mask in bits 10..8, X,N,Z,V,C in bits
\* 4..0 and zero in every other bit, and set_status_register reads the flags
\* from those same bit positions.
C13_StatusRegisterLayout == C13_Layout(13)

\* 0xFFFF set, then read back as 0xA71F: every implemented bit and no other
C13_Witness ==
    /\ last.op = "status_register"
    /\ last.written = 65535
    /\ last.value = 42783
    /\ registers.supervisor_mode
    /\ registers.trace_enabled
    /\ registers.interrupt_priority_mask = 7

\* a + d modulo 2^32 for a signed displacement d
AddSigned(a, d) == IF d >= 0 THEN WrappingAdd(a, <<0, d>>) ELSE WrappingSub(a, <<0, -d>>)

\* What an index register contributes to an effective address
IndexContribution(r, index, index_size) ==
    LET raw == IF index.kind = "Data" THEN r.data[index.register]
               ELSE An(r, index.register)
    IN  IF index_size = "SignExtendedWord" THEN SignExtendWord(Lo(raw)) ELSE raw

IndexedModes == {"AddressIndirectIndexed", "PcRelativeIndexed"}

\* The base of a displacement or indexed mode: An, or the captured PC
BaseOf(am, r) ==
    IF am.mode \in {"PcRelativeDisplacement", "PcRelativeIndexed"}
    THEN am.pc
    ELSE An(r, am.register)

\* C14: in the indexed modes (An-indirect and PC-relative) a SignExtendedWord
\* index contributes the low 16 bits of the index register sign-extended to
\* 32 bits, whatever its upper 16 bits hold, and a LongWord index contributes
\* all 32 bits; for data and address index registers alike.
C14_IndexSize ==
    (/\ last.op \in {"read", "write"}
     /\ last.am.mode \in IndexedModes
     /\ (last.op = "read" \/ last.am.mode = "AddressIndirectIndexed"))
    => /\ Len(last.accesses) = 1
       /\ WrappingSub(last.accesses[1].address,
                      AddSigned(BaseOf(last.am, last.registers), last.am.displacement))
             = IndexContribution(last.registers, last.am.index, last.am.index_size)

\* (127, A1, D2.w) with D2 = 0x0002FFFD: the index counts as -3
C14_Witness ==
    /\ last.op = "read"
    /\ last.am = AddressIndirectIndexed(1, [kind |-> "Data", register |-> 2],
                                        "SignExtendedWord", 127)
    /\ last.registers.data[2] = <<2, 65533>>
    /\ last.registers.address[1] = <<0, 8192>>
    /\ last.accesses[1].address = <<0, 8316>>

EffectiveAddressModes ==
    {"AddressIndirectDisplacement", "AddressIndirectIndexed", "PcRelativeDisplacement",
     "PcRelativeIndexed", "AbsoluteShort"}

\* The effective address of a displacement, indexed or absolute-short operand
EffectiveAddress(am, r) ==
    CASE am.mode \in {"AddressIndirectDisplacement", "PcRelativeDisplacement"} ->
            AddSigned(BaseOf(am, r), am.displacement)
      [] am.mode \in IndexedModes ->
            AddSigned(WrappingAdd(BaseOf(am, r),
                                  IndexContribution(r, am.index, am.index_size)),
                      am.displacement)
      [] am.mode = "AbsoluteShort" -> AddSigned(Zero32, am.address)

\* C15: effective addresses are computed modulo 2^32 with the displacement
\* sign-extended: (d16,An) is An + d16, (d8,An,Xi) is An + index + d8, the
\* PC-relative modes take the captured PC as base, absolute-short is the
\* extension word sign-extended; a read and a write of the same operand are
\* at the same address.
C15_EffectiveAddress ==
    (/\ last.op \in {"read", "write"}
     /\ last.am.mode \in EffectiveAddressModes
     /\ (last.op = "read" \/ is_writable(last.am)))
    => /\ last.accesses =
             <<Access(last.op, EffectiveAddress(last.am, last.registers), last.size)>>
       /\ is_writable(last.am) =>
             AddressingMode_read(last.am, last.registers, EmptyBus, last.size)
                     .accesses[1].address
                 = AddressingMode_write(last.am, last.registers, EmptyBus, last.size,
                                        last.value.value).accesses[1].address

\* A word written at (-32768, A7) in user mode with USP = 1: the address
\* wraps below 0 to 0xFFFF8001
C15_Witness ==
    /\ last.op = "write"
    /\ last.am = AddressIndirectDisplacement(7, -32768)
    /\ last.size = "Word"
    /\ ~last.registers.supervisor_mode
    /\ last.registers.usp = <<0, 1>>
    /\ last.accesses = <<Access("write", <<65535, 32769>>, "Word")>>

\* The header of the file loaded, as the iNES / NES 2.0 format lays it out
HeaderByte(i) == file.head[i + 1]

Loaded == loaded.kind # "NotLoaded"

HasHeader == file.exists /\ file.size >= 16

ValidMagic ==
    /\ HeaderByte(0) = 78
    /\ HeaderByte(1) = 69
    /\ HeaderByte(2) = 83
    /\ HeaderByte(3) = 26

IsNes2 == (HeaderByte(7) \div 4) % 4 = 2

VolatileNibble == HeaderByte(10) % 16
NonVolatileNibble == HeaderByte(10) \div 16

DeclaredPrgRom == 16384 * ((HeaderByte(9) % 16) * 256 + HeaderByte(4))
DeclaredChrRom == 8192 * ((HeaderByte(9) \div 16) * 256 + HeaderByte(5))

DataStart == IF (HeaderByte(6) \div 4) % 2 = 1 THEN 528 ELSE 16

\* The file holds the PRG-ROM and CHR-ROM bytes its header declares
HoldsDeclaredData ==
    /\ DeclaredPrgRom > 0 => DataStart + DeclaredPrgRom <= file.size
    /\ DeclaredChrRom > 0 => DataStart + DeclaredPrgRom + DeclaredChrRom <= file.size

BothPrgRamTypes == IsNes2 /\ VolatileNibble > 0 /\ NonVolatileNibble > 0

\* C16 (as claimed): for every NES 2.0 header (byte 7 bits 3..2 equal to 10)
\* whose byte 10 has both the volatile and the non-volatile PRG-RAM shift
\* nibble non-zero, the loader rejects the file with MultiplePrgRamTypes and
\* builds no mapper.
C16_AsClaimed ==
    (Loaded /\ HasHeader /\ ValidMagic /\ BothPrgRamTypes)
        => loaded = MultiplePrgRamTypes

\* C16 (amended): the same for every such file that holds the PRG-ROM and
\* CHR-ROM bytes its header declares; the loader reads those before it looks
\* at byte 10, so a shorter file is rejected with Io instead.
C16_MultiplePrgRamTypes ==
    (Loaded /\ HasHeader /\ ValidMagic /\ BothPrgRamTypes /\ HoldsDeclaredData)
        => loaded = MultiplePrgRamTypes

\* A NES 2.0 file for mapper 16 with shifts 9 and 15, all its data there
C16_Witness ==
    /\ loaded = MultiplePrgRamTypes
    /\ HeaderByte(7) = 24
    /\ HeaderByte(10) = 249
    /\ HoldsDeclaredData

\* C17 (as claimed): for every file whose first four bytes are not
\* 4E 45 53 1A from_file returns Format, and the header is parsed (a mapper,
\* UnsupportedMapper or MultiplePrgRamTypes comes back) only when the magic
\* matches.
C17_MagicValidated ==
    /\ (Loaded /\ file.exists /\ file.size >= 4 /\ ~ValidMagic) => loaded = Format
    /\ (Loaded /\ loaded.kind = "Ok") => ValidMagic
    /\ (Loaded /\ loaded.kind = "Err"
            /\ loaded.error \in {"UnsupportedMapper", "MultiplePrgRamTypes"})
          => ValidMagic

SupportedMappers == {0, 1, 2, 3, 4, 7}

VariantOf(n) ==
    CASE n = 0 -> "Nrom" [] n = 1 -> "Mmc1" [] n = 2 -> "Uxrom"
      [] n = 3 -> "Cnrom" [] n = 4 -> "Mmc3" [] n = 7 -> "Axrom"

\* (byte 7 & 0xF0) | (byte 6 >> 4)
DeclaredMapper == (HeaderByte(7) \div 16) * 16 + (HeaderByte(6) \div 16)

\* The outcome C18 names for the mapper number of the header
C18_Dispatched ==
    IF DeclaredMapper \in SupportedMappers
    THEN loaded.kind = "Ok" /\ loaded.mapper = VariantOf(DeclaredMapper)
    ELSE loaded = [kind |-> "Err", error |-> "UnsupportedMapper",
                   mapper_number |-> DeclaredMapper]

\* C18 (as claimed): the mapper number is (byte 7 & 0xF0) | (byte 6 >> 4);
\* 0 builds NROM, 1 MMC1, 2 UxROM, 3 CNROM, 4 MMC3, 7 AxROM, and every other
\* number fails with UnsupportedMapper carrying that number.  Stated here for
\* the files that hold all the data their header declares, which is the
\* least the claim says.
C18_AsClaimed == (Loaded /\ HasHeader /\ ValidMagic /\ HoldsDeclaredData) => C18_Dispatched

\* C18 (amended): the same whenever the load gets to the dispatch: the file
\* holds the PRG-ROM and CHR-ROM bytes its header declares (else Io) and the
\* header does not name both PRG-RAM types (else MultiplePrgRamTypes, whatever
\* the mapper number).
C18_MapperDispatch ==
    (Loaded /\ HasHeader /\ ValidMagic /\ HoldsDeclaredData /\ ~BothPrgRamTypes)
        => C18_Dispatched

\* An iNES file for mapper 5, which is not supported
C18_Witness ==
    /\ HasHeader
    /\ HeaderByte(6) = 80
    /\ HeaderByte(7) = 0
    /\ loaded = UnsupportedMapper(5)

\* C19 (as claimed): every cartridge of a successful load has exactly one of
\* CHR-ROM and CHR-RAM non-empty: CHR-RAM is empty when the header declares a
\* non-zero CHR-ROM size and non-empty when it declares zero, in both formats.
C19_OneChrMemory ==
    (Loaded /\ loaded.kind = "Ok") =>
        /\ (loaded.cartridge.chr_rom.len > 0) # (loaded.cartridge.chr_ram.len > 0)
        /\ DeclaredChrRom > 0 => loaded.cartridge.chr_ram.len = 0
        /\ DeclaredChrRom = 0 => loaded.cartridge.chr_ram.len > 0

\* C20: the PRG-RAM of a loaded cartridge is all zeroes; its length is 8192
\* for an iNES header, and for a NES 2.0 header 64 << max(volatile shift,
\* non-volatile shift) when that maximum is not zero, 0 when both are zero.
C20_PrgRamSize ==
    (Loaded /\ loaded.kind = "Ok") =>
        /\ loaded.cartridge.prg_ram.fill = 0
        /\ ~IsNes2 => loaded.cartridge.prg_ram.len = 8192
        /\ IsNes2 =>
              LET m == IF VolatileNibble >= NonVolatileNibble
                       THEN VolatileNibble ELSE NonVolatileNibble
              IN  loaded.cartridge.prg_ram.len = (IF m > 0 THEN 64 * (2 ^ m) ELSE 0)

\* A NES 2.0 cartridge with non-volatile shift 15: 2 MiB of PRG-RAM
C20_Witness ==
    /\ Loaded
    /\ loaded.kind = "Ok"
    /\ HeaderByte(7) = 8
    /\ HeaderByte(10) = 240
    /\ loaded.cartridge.prg_ram = [fill |-> 0, len |-> 2097152]

\* C21: PRG-ROM is the file region of 16384 x (((byte 9 & 0x0F) << 8) | byte 4)
\* bytes from offset 16, or 16 + 512 when byte 6 bit 2 is set; CHR-ROM is the
\* region of 8192 x (((byte 9 >> 4) << 8) | byte 5) bytes right behind it; a
\* file too short for either region fails with an Io error.
C21_RomRegions ==
    /\ (Loaded /\ loaded.kind = "Ok") =>
          /\ loaded.cartridge.prg_rom = [offset |-> DataStart, len |-> DeclaredPrgRom]
          /\ loaded.cartridge.chr_rom =
                [offset |-> DataStart + DeclaredPrgRom, len |-> DeclaredChrRom]
    /\ (Loaded /\ HasHeader /\ ValidMagic /\ ~HoldsDeclaredData) => loaded = Io

\* A file with a trainer, 2 PRG units and 257 CHR units, loaded as MMC1
C21_Witness ==
    /\ Loaded
    /\ loaded.kind = "Ok"
    /\ HeaderByte(4) = 2
    /\ HeaderByte(5) = 1
    /\ HeaderByte(6) = 20
    /\ HeaderByte(9) = 16
    /\ loaded.cartridge.prg_rom = [offset |-> 528, len |-> 32768]
    /\ loaded.cartridge.chr_rom = [offset |-> 33296, len |-> 2105344]

\* The i-th word behind the opcode word of the instruction decoded (i >= 1)
ExtWord(i) == bus_read_word(bus, WrappingAdd(last.registers.pc, <<0, 2 * i>>))

\* A 16-bit and an 8-bit pattern read as a signed number
Signed16(w) == IF w >= 32768 THEN w - 65536 ELSE w
Signed8(b) == IF b >= 128 THEN b - 256 ELSE b

\* The size a MOVE opcode names
SizeOfOpcode(opcode) ==
    CASE opcode \div 4096 = 1 -> "Byte"
      [] opcode \div 4096 = 3 -> "Word"
      [] opcode \div 4096 = 2 -> "LongWord"

\* The value an immediate of the given size has when its extension words
\* start at the i-th word behind the opcode
ImmediateAt(size, i) ==
    CASE size = "Byte" -> <<0, ExtWord(i) % 256>>
      [] size = "Word" -> <<0, ExtWord(i)>>
      [] size = "LongWord" -> <<ExtWord(i), ExtWord(i + 1)>>

\* C22: the source's extension words are fetched before the destination's:
\* in a MOVE with a displacement destination the displacement is the word
\* behind the source's extension words, and with an immediate source the
\* immediate is the word (or two) directly behind the opcode.
C22_SourceWordsFirst ==
    (/\ last.op = "decode"
     /\ decoded.kind = "Move"
     /\ decoded.dest.mode = "AddressIndirectDisplacement")
    => /\ decoded.dest.displacement
             = Signed16(ExtWord(ExtensionWords(decoded.source, decoded.size) + 1))
       /\ decoded.source.mode = "Immediate" =>
             decoded.source.data = ImmediateAt(decoded.size, 1)

\* MOVE.b #$12, ($3456, A4) of tests::decode_mov: 0x197C 0xFF12 0x3456
C22_Witness ==
    /\ last.op = "decode"
    /\ last.opcode = 6524
    /\ ExtWord(1) = 65298
    /\ ExtWord(2) = 13398
    /\ decoded = Move("Byte", Immediate(<<0, 18>>), AddressIndirectDisplacement(4, 13398))

\* C23: an immediate operand takes one extension word for Byte and Word and
\* two for LongWord; the Byte value is the low 8 bits of the word, the Word
\* value the whole word, the LongWord value the first word in bits 31..16
\* and the second in bits 15..0.
C23_ImmediateWords ==
    (last.op = "decode" /\ last.source.mode = "Immediate")
    => LET size == SizeOfOpcode(last.opcode)
       IN  /\ last.source.data = ImmediateAt(size, 1)
           /\ last.source_pc =
                 WrappingAdd(last.registers.pc,
                             <<0, IF size = "LongWord" THEN 6 ELSE 4>>)
           /\ size = "Byte" => (Hi(last.source.data) = 0 /\ Lo(last.source.data) < 256)

\* MOVE.l #$FF123456, D0 decoded at 0x1234
C23_Witness ==
    /\ last.op = "decode"
    /\ last.opcode = 8252
    /\ last.registers.pc = <<0, 4660>>
    /\ decoded = Move("LongWord", Immediate(<<65298, 13398>>), DataDirect(0))
    /\ registers.pc = <<0, 4666>>

\* The index fields of an indexed operand as the extension word w lays them
\* out: bit 15 address/data, bits 14..12 the register, bit 11 long/word,
\* bits 7..0 the signed displacement
C24_IndexFields(am, w) ==
    /\ am.index.kind = (IF (w \div 32768) % 2 = 1 THEN "Address" ELSE "Data")
    /\ am.index.register = (w \div 4096) % 8
    /\ am.index_size = (IF (w \div 2048) % 2 = 1 THEN "LongWord" ELSE "SignExtendedWord")
    /\ am.displacement = Signed8(w % 256)

\* C24: both indexed modes decode their one extension word as: bit 15
\* address (1) or data (0) index register, bits 14..12 its number, bit 11
\* LongWord (1) or SignExtendedWord (0), bits 7..0 the signed displacement;
\* the base of a PC-relative operand is the address of its extension word,
\* the opcode address + 2 for a source.
C24_IndexExtensionWord ==
    last.op = "decode" =>
        /\ last.source.mode \in IndexedModes => C24_IndexFields(last.source, ExtWord(1))
        /\ last.source.mode \in {"PcRelativeDisplacement", "PcRelativeIndexed"} =>
              last.source.pc = WrappingAdd(last.registers.pc, <<0, 2>>)
        /\ last.source.mode = "PcRelativeDisplacement" =>
              last.source.displacement = Signed16(ExtWord(1))
        /\ last.dest.mode \in IndexedModes =>
              C24_IndexFields(last.dest,
                              ExtWord(ExtensionWords(last.source,
                                                     SizeOfOpcode(last.opcode)) + 1))

\* MOVE.w (-2,PC,A2.l),D0 at 0xFFFFFFFC: extension word 0xA8FE, base 0xFFFFFFFE
C24_Witness ==
    /\ last.op = "decode"
    /\ last.opcode = 12347
    /\ last.registers.pc = <<65535, 65532>>
    /\ ExtWord(1) = 43262
    /\ last.source = PcRelativeIndexed(<<65535, 65534>>,
                                       [kind |-> "Address", register |-> 2],
                                       "LongWord", -2)

\* Bitwise and of the low n bits of a and b
RECURSIVE C25_And(_, _, _)
C25_And(a, b, n) ==
    IF n = 0 THEN 0
    ELSE (a % 2) * (b % 2) + 2 * C25_And(a \div 2, b \div 2, n - 1)

\* Trace flag, supervisor flag, interrupt mask and the five condition codes
C25_Flags(r) ==
    <<r.trace_enabled, r.supervisor_mode, r.interrupt_priority_mask, r.ccr.extend,
      r.ccr.negative, r.ccr.zero, r.ccr.overflow, r.ccr.carry>>

\* C25: for every 16-bit v, set_status_register(v) then status_register()
\* returns v & 0xA71F; set_status_register(status_register()) leaves trace,
\* supervisor, interrupt mask and the five condition codes unchanged; neither
\* operation changes a data register, an address register, USP, SSP or PC.
C25_StatusRoundTrip ==
    /\ (last.op = "status_register" /\ last.written # -1) =>
          last.value = C25_And(last.written, 42783, 16)
    /\ (last.op = "set_status_register" /\ last.value = status_register(last.registers)) =>
          C25_Flags(registers) = C25_Flags(last.registers)
    /\ last.op \in {"set_status_register", "status_register"} =>
          /\ registers.data = last.registers.data
          /\ registers.address = last.registers.address
          /\ registers.usp = last.registers.usp
          /\ registers.ssp = last.registers.ssp
          /\ registers.pc = last.registers.pc

\* 0x5AA5 was set and read back as 0x0205; writing 0x0205 back finds the
\* register file as it was, the data registers still in use
C25_Witness ==
    /\ last.op = "set_status_register"
    /\ last.value = 517
    /\ last.value = status_register(last.registers)
    /\ registers = last.registers
    /\ registers.interrupt_priority_mask = 2
    /\ ~registers.supervisor_mode
    /\ registers.ccr.zero /\ registers.ccr.carry
    /\ registers.data[0] = <<42400, 23280>>

\* The steps of the web front end's loop
C26_WebOps == {"FileOpen", "MainEventsCleared", "open_file", "WindowEvent"}

\* The emulator is assigned only by a FileOpen event or a Reset command
C26_CreatedByOpenOrReset ==
    (last.op \in C26_WebOps /\ emulator # last.emulator) =>
        \/ last.op = "FileOpen"
        \/ /\ last.op = "MainEventsCleared"
           /\ \E i \in DOMAIN last.commands : last.commands[i] = "Reset"

\* Commands drained while no ROM has been opened leave the emulator None
C26_ResetWithoutRomSkipped ==
    (last.op = "MainEventsCleared" /\ ~last.current_rom.some) =>
        /\ emulator = Emulator_None
        /\ panicked = ""

\* A non-None emulator is the one open_emulator builds from current_rom
C26_BuiltFromCurrentRom ==
    emulator # Emulator_None =>
        /\ current_rom.some
        /\ open_emulator(current_rom.rom, current_rom.file_name)
              = [panic |-> "", emulator |-> emulator]

\* C26: over any sequence of FileOpen events and OpenFile/Reset commands the
\* emulator is created only by a FileOpen event or a Reset command, a Reset
\* received while no ROM has been opened is skipped and leaves the emulator
\* None, and in every reachable state a non-None emulator was built from the
\* ROM bytes and file name held in current_rom.
C26_EmulatorFollowsCurrentRom ==
    /\ C26_CreatedByOpenOrReset
    /\ C26_ResetWithoutRomSkipped
    /\ C26_BuiltFromCurrentRom

\* The same, for the states in which no handler has panicked
C26_WhileRunning == panicked = "" => C26_EmulatorFollowsCurrentRom

====
